---- MODULE Spec2Model ----
(***************************************************************************)
(* Model of the as-models-api web host (as_models/web_api.py): the         *)
(* supervisor state `api_state`, the three HTTP handlers, the worker       *)
(* process `_JobProcess.__call__` and the IPC pipe between them.           *)
(*                                                                         *)
(* Python's None is modelled by a marker of the field's own type: "None"   *)
(* for strings, NoProcess for the process handle, NoTime for a timestamp,  *)
(* NoExit for an exit code, NoException for the exception dictionary.      *)
(* A timestamp is modelled by the time elapsed since it was taken, in       *)
(* seconds, saturating at the limit it is compared with: taking            *)
(* time.time() stores JustNow, and Tick ages every timestamp by            *)
(* TickSeconds.                                                            *)
(* The module-level construction `api_state = ApiState()` is taken to      *)
(* leave the state ApiState.reset() establishes.                           *)
(*                                                                         *)
(* The libraries the user model calls are modelled beside the host, each   *)
(* under a specification of its own: the retry wrapper of api_support.py   *)
(* (RetrySpec), backoff_from_headers (BackoffSpec) and the ports of        *)
(* python_models.Context (PortSpec).                                       *)
(*                                                                         *)
(* Three further specifications look at parts of web_api.py by themselves: *)
(* _load_entrypoint over a small filesystem (LoadSpec), _post_root run     *)
(* statement by statement on two request threads (RaceSpec), and the copy  *)
(* and purge of the log in _get_state beside a thread that logs            *)
(* (PurgeSpec). Spec itself runs every handler as one atomic step.         *)
(*                                                                         *)
(* Three more look at parts of the worker's side: the _Updater of a job    *)
(* (UpdaterSpec), a grid port with the context's client cache (GridSpec),  *)
(* and runtime.subprocess.execute beside its child process, under weak     *)
(* fairness of both processes (ExecLiveSpec).                              *)
(***************************************************************************)
EXTENDS Integers, Sequences, FiniteSets, TLC

\* ------------------------------------------------------------------ bounds
TickSeconds == 3      \* seconds between two readings of the clock
MaxProcs == 2         \* process handles the operating system can hand out
MaxUserLogs == 1      \* log entries the user model writes per job
MaxHostLogs == 4      \* log entries the host's own logger emits
MaxEmits == 4         \* log entries emitted beside a snapshot in progress

\* --------------------------------------------------------------- constants
_SUBPROCESS_STARTUP_TIME_LIMIT == 30
_ABNORMAL_TERMINATION_GRACE_PERIOD == 5

PENDING == "PENDING"
RUNNING == "RUNNING"
COMPLETE == "COMPLETE"
TERMINATED == "TERMINATED"
FAILED == "FAILED"

NoProcess == 0
NoTime == -1
JustNow == 0
NoExit == 999
SIGTERM == 15
SIGKILL == 9

Pids == 1..MaxProcs
\* the request threads of the WSGI server
Threads == {1, 2}

\* a manifest that has every model a request names
ManifestModels_Any == {"test_model", "bogus"}

\* the manifest of the hosted model: the model ids it declares
ManifestModels == {"test_model"}
\* modelId values a job request can carry ("None": the key is missing)
RequestModelIds == {"None", "test_model", "bogus"}

NoException == [developer_msg |-> "None", msg |-> "None", exitCode |-> NoExit, model_id |-> "None"]

\* ApiState.reset: the state dictionary of a fresh job
FreshState == [state |-> PENDING, progress |-> "None", exception |-> NoException, log |-> << >>]

\* an IPC message: a dictionary with any of the keys state, progress, exception, log
Msg(s, p, e, l) == [state |-> s, progress |-> p, exception |-> e, log |-> l]

VARIABLES
    api_state,   \* the supervisor: process, receiver, model_id, state, started_timestamp, failed_timestamp
    procs,       \* the worker processes, by process handle
    pipes,       \* the IPC pipe of each worker: messages sent and not yet received
    hostPc,      \* "idle", or "join" while terminate() waits in process.join(timeout)
    listening,   \* the HTTP listener still accepts requests
    hostLogs,    \* number of entries the host's logger has emitted
    resp,        \* the last HTTP response
    hist,        \* what has been observed of the current job so far
    call,        \* a call of a function wrapped by api_support.retry
    backoff,     \* an evaluation of api_support.backoff_from_headers
    ctx,         \* a python_models.Context: its ports, its updater and what the updater sent
    load,        \* a call of _load_entrypoint: the filesystem, the path given and the result
    posts,       \* _post_root run by the threads of a threaded WSGI server, line by line
    snap,        \* _get_state's copy and purge of the log, beside a thread that logs
    updater,     \* a worker's _Updater: what it remembers and what its sender has sent
    grid,        \* a grid port of a Context, the context's grid clients and the uploads made
    child        \* a child process run by runtime.subprocess.execute, and its two pipes

hostVars == <<api_state, procs, pipes, hostPc, listening, hostLogs, resp, hist>>
extVars == <<updater, grid, child>>
libVars == <<call, backoff, ctx, load, posts, snap, updater, grid, child>>
vars == <<api_state, procs, pipes, hostPc, listening, hostLogs, resp, hist, call, backoff, ctx,
          load, posts, snap, updater, grid, child>>


\* ------------------------------------------------------- the worker process
\* a process that was never started
Unborn == [pc |-> "unborn", alive |-> FALSE, exitcode |-> NoExit, diedAt |-> NoTime,
           model_id |-> "None", sigterm |-> FALSE, sigkill |-> FALSE, ignoresTerm |-> FALSE,
           u_state |-> "None", u_progress |-> "None", nlog |-> 0,
           exc |-> "None", outcome |-> "None", sent |-> << >>]

\* a log entry; the host's entries carry pid NoProcess
LogEntry(pid, id, level) == [pid |-> pid, id |-> id, level |-> level, message |-> << >>]

\* The handlers below are functions of the "world" w they run in:
\* w.api (the supervisor), w.procs, w.pipes and w.hostLogs.
World == [api |-> api_state, procs |-> procs, pipes |-> pipes, hostLogs |-> hostLogs]

\* multiprocessing.Process.is_alive
is_alive(w, p) == w.procs[p].alive

\* ----------------------------------------------------- ApiState properties
model_state(w) == w.api.state.state

subprocess_starting(w) ==
    (w.api.process # NoProcess) /\ ~is_alive(w, w.api.process) /\ (model_state(w) = PENDING)

\* a supervisor that never sees its worker alive
subprocess_running_Never(w) == FALSE

subprocess_running(w) ==
    (w.api.process # NoProcess) /\ is_alive(w, w.api.process)

model_running(w) ==
    subprocess_running(w) /\ (model_state(w) \notin {COMPLETE, FAILED, TERMINATED})

\* ApiState.reset
reset(w) ==
    [w EXCEPT !.api = [process |-> NoProcess, receiver |-> NoProcess, model_id |-> "None",
                       started_timestamp |-> NoTime, failed_timestamp |-> NoTime,
                       state |-> FreshState]]

\* lines 255-256: started_timestamp is taken on the first call
stamp_started(w) ==
    [w EXCEPT !.api.started_timestamp = IF @ = NoTime THEN JustNow ELSE @]

\* ApiState.check_subprocess_startup_timeout: its answer; a call that finds the
\* subprocess running leaves the state alone, any other leaves stamp_started(w)
check_subprocess_startup_timeout(w) ==
    IF subprocess_running(w) THEN TRUE
    ELSE stamp_started(w).api.started_timestamp < _SUBPROCESS_STARTUP_TIME_LIMIT

\* a stamp taken on every call
stamp_failed_EveryCall(w) ==
    [w EXCEPT !.api.failed_timestamp = JustNow]

\* lines 261-263: failed_timestamp is taken on the first call
stamp_failed(w) ==
    [w EXCEPT !.api.failed_timestamp = IF @ = NoTime THEN JustNow ELSE @]

\* a check without a grace period
check_failure_cleanup_timeout_NoGrace(w) == FALSE

\* ApiState.check_failure_cleanup_timeout: its answer; the call leaves stamp_failed(w)
check_failure_cleanup_timeout(w) ==
    stamp_failed(w).api.failed_timestamp < _ABNORMAL_TERMINATION_GRACE_PERIOD

\* ApiState.fail_with_exception
fail_with_exception(w, message, dev_message, exitCode) ==
    [w EXCEPT !.api.state.state = FAILED,
              !.api.state.exception = [developer_msg |-> dev_message, msg |-> message,
                                       exitCode |-> exitCode, model_id |-> w.api.model_id]]

\* _WebAPILogHandler.emit: the host's logger appends to the state's log
emit(w, level) ==
    [w EXCEPT !.hostLogs = @ + 1,
              !.api.state.log = Append(@, LogEntry(NoProcess, w.hostLogs + 1, level))]

\* ------------------------------------------------------------- _get_state
\* api_state.state.update(update), the update's log entries appended to the state's log
ApplyUpdate(st, update) ==
    [state |-> IF update.state = "None" THEN st.state ELSE update.state,
     progress |-> IF update.progress = "None" THEN st.progress ELSE update.progress,
     exception |-> IF update.exception = NoException THEN st.exception ELSE update.exception,
     log |-> st.log \o update.log]

RECURSIVE DrainAll_Reversed(_, _)
\* a loop that applies the newest message first
DrainAll_Reversed(st, msgs) ==
    IF msgs = << >> THEN st ELSE ApplyUpdate(DrainAll_Reversed(st, Tail(msgs)), Head(msgs))

RECURSIVE DrainAll(_, _)
\* while receiver.poll(): recv() and apply
DrainAll(st, msgs) ==
    IF msgs = << >> THEN st ELSE DrainAll(ApplyUpdate(st, Head(msgs)), Tail(msgs))

\* a guard that forgets to look at the state
DrainGuard_AnyState(w) ==
    (w.api.process # NoProcess) /\ (w.api.receiver # NoProcess)

\* the condition under which _get_state reads the pipe
DrainGuard(w) ==
    (w.api.process # NoProcess) /\ (w.api.receiver # NoProcess)
        /\ (model_state(w) \in {"None", PENDING, RUNNING})

Drain(w) ==
    IF DrainGuard(w)
    THEN [w EXCEPT !.api.state = DrainAll(@, w.pipes[w.api.receiver]),
                   !.pipes[w.api.receiver] = << >>]
    ELSE w

\* lines 378-392 for a process that was started: log, join, record the failure
cleanup_defunct(w, exitcode) ==
    fail_with_exception(
        IF exitcode = NoExit THEN emit(emit(w, "CRITICAL"), "ERROR")
        ELSE IF exitcode < 0 THEN emit(emit(w, "CRITICAL"), "INFO")
        ELSE emit(w, "CRITICAL"),
        IF subprocess_starting(w) THEN "failed to start" ELSE "terminated abnormally",
        "terminated with exit code", exitcode)

\* _check_for_abnormal_termination: the world afterwards, and whether it raised
\* (api_state.process.join on a process that is None raises AttributeError).
\* `and` short-circuits: the startup check runs only for a running subprocess.
_check_for_abnormal_termination(w) ==
    IF subprocess_running(w) /\ check_subprocess_startup_timeout(w)
    THEN [w |-> [w EXCEPT !.api.failed_timestamp = NoTime], raised |-> FALSE]
    ELSE IF check_failure_cleanup_timeout(w)
    THEN [w |-> stamp_failed(w), raised |-> FALSE]
    ELSE IF w.api.process = NoProcess
    THEN [w |-> emit(stamp_failed(w), "CRITICAL"), raised |-> TRUE]
    ELSE [w |-> cleanup_defunct(stamp_failed(w), w.procs[w.api.process].exitcode),
          raised |-> FALSE]

\* a purge loop that stops one entry early
Purge_OffByOne(st) ==
    [st EXCEPT !.log = IF @ = << >> THEN @ ELSE <<@[Len(@)]>>]

\* CPS-952: delete the first purge_count entries of the log
Purge(st) ==
    LET purge_count == Len(st.log) IN [st EXCEPT !.log = SubSeq(@, purge_count + 1, Len(@))]

\* lines 344-363 of _get_state, after the check left `checked`
snapshot_and_purge(checked) ==
    IF checked.raised
    THEN [w |-> checked.w, raised |-> TRUE, ret_val |-> FreshState]
    ELSE [w |-> [checked.w EXCEPT !.api.state = Purge(@)],
          raised |-> FALSE,
          ret_val |-> checked.w.api.state]

\* _get_state: the world afterwards, the snapshot returned, and whether it raised
_get_state(w) == snapshot_and_purge(_check_for_abnormal_termination(Drain(w)))

\* handle_500 for an exception raised while process is None: terminate(5.0) returns at
\* once, fail_with_exception records the error, and _get_root runs _get_state again
handle_500(w) ==
    _get_state(fail_with_exception(w, "An internal error occurred.", "AttributeError", NoExit))

\* an HTTP response: the status code and, when the body is a snapshot, the snapshot
Response(code, snapshot, body) ==
    [code |-> code, snapshot |-> snapshot, body |-> body]

\* the response of the error handler, whose result is h: an exception raised by
\* handle_500 itself leaves a bare 500
RespondError(h) ==
    IF h.raised THEN [w |-> h.w, resp |-> Response(500, FALSE, FreshState)]
    ELSE [w |-> h.w, resp |-> Response(500, TRUE, h.ret_val)]

\* the response to a request whose _get_state call gave r
RespondWith(r, code) ==
    IF ~r.raised THEN [w |-> r.w, resp |-> Response(code, TRUE, r.ret_val)]
    ELSE RespondError(handle_500(r.w))

\* jsonify(_get_state()) answered with `code`
Respond(w, code) == RespondWith(_get_state(w), code)

\* _get_root
_get_root(w) == Respond(w, 200)

\* ------------------------------------------------- what the client has seen

\* nothing observed yet of a job: set when ApiState.reset starts a new one
FreshHist ==
    [firstTerminal |-> "None",  \* the first terminal state a snapshot showed
     returned |-> {},           \* log entries some response contained
     twice |-> {},              \* log entries more than one response contained
     firstDeadObs |-> NoTime]   \* time since the first snapshot that found the worker dead

Range(seq) == {seq[i] : i \in 1..Len(seq)}

\* the history after the response r.resp was produced from world w0
Observe(h, r) ==
    IF ~r.resp.snapshot THEN h
    ELSE LET entries == Range(r.resp.body.log)
             dead == (r.w.api.process # NoProcess) /\ ~is_alive(r.w, r.w.api.process) IN
         [h EXCEPT !.firstTerminal = IF @ = "None" /\ r.resp.body.state \in {COMPLETE, FAILED, TERMINATED}
                                     THEN r.resp.body.state ELSE @,
                   !.returned = @ \cup entries,
                   !.twice = @ \cup (h.returned \cap entries),
                   !.firstDeadObs = IF @ = NoTime /\ dead THEN JustNow ELSE @]

\* ------------------------------------------------------------ HTTP handlers
\* the handler ends leaving world r.w, response r.resp and history h
Commit(r, h) ==
    /\ r.w.hostLogs <= MaxHostLogs
    /\ api_state' = r.w.api
    /\ procs' = r.w.procs
    /\ pipes' = r.w.pipes
    /\ hostLogs' = r.w.hostLogs
    /\ resp' = r.resp
    /\ hist' = h
    /\ UNCHANGED libVars

\* the handler ends with r, observed by the client of a job with history h
Finish(r, h) == Commit(r, Observe(h, r))

Serving == hostPc = "idle" /\ listening

\* GET /
GetRoot ==
    /\ Serving
    /\ Finish(_get_root(World), hist)
    /\ UNCHANGED <<hostPc, listening>>

\* a guard that looks at the running model instead of the process handle
JobAccepted_ModelRunning(w) == model_running(w)

\* a handler that never refuses a request
JobAccepted_Never(w) == FALSE

\* the first line of _post_root: a job was already accepted
JobAccepted(w) == w.api.process # NoProcess

\* mp.Process(target=job_process).start() and the Pipe of the new job
Spawn(w, modelId) ==
    LET p == CHOOSE n \in Pids : w.procs[n].pc = "unborn" /\ \A q \in Pids : q < n => w.procs[q].pc # "unborn" IN
    [w EXCEPT !.api.receiver = p, !.api.process = p,
              !.procs[p] = [Unborn EXCEPT !.pc = "boot", !.alive = TRUE, !.model_id = modelId],
              !.pipes[p] = << >>]

\* the ports of the manifest's model: in1 and out1 are required
ManifestPorts ==
    << [name |-> "in1", required |-> TRUE], [name |-> "opt", required |-> FALSE],
       [name |-> "out1", required |-> TRUE] >>

\* the port names job requests bind in their 'ports'
RequestPorts == {{"in1", "out1"}, {"in1"}}

\* the names of the ports of a list, in its order
PortNames(ports) == [i \in 1..Len(ports) |-> ports[i].name]

\* a list of every port the request does not bind, required or not
missing_ports_Unbound(model_ports, bound) ==
    PortNames(SelectSeq(model_ports, LAMBDA port : port.name \notin bound))

\* lines 454-455: the required ports of the model that the request does not bind
missing_ports(model_ports, bound) ==
    PortNames(SelectSeq(model_ports, LAMBDA port : port.required /\ port.name \notin bound))

\* lines 457-458: one WARNING whose message lists the missing ports, if there are any
warn_missing(w, missing) ==
    IF missing = << >> THEN w
    ELSE [w EXCEPT !.hostLogs = @ + 1,
                   !.api.state.log =
                        Append(@, [LogEntry(NoProcess, w.hostLogs + 1, "WARNING")
                                      EXCEPT !.message = missing])]

\* POST / with a request whose modelId is modelId ("None": missing) and whose 'ports'
\* bind the names in ports
PostRoot(modelId, ports) ==
    /\ Serving
    /\ UNCHANGED <<hostPc, listening>>
    /\ IF JobAccepted(World)
       THEN Finish(Respond(World, 409), hist)
       ELSE \* a new job: its log entries are numbered from 1 again
            LET w1 == [reset(World) EXCEPT !.hostLogs = 0] IN
            IF modelId = "None"
            THEN Commit([w |-> w1, resp |-> Response(400, FALSE, FreshState)], FreshHist)
            ELSE LET w2 == [w1 EXCEPT !.api.model_id = modelId] IN
                 IF modelId \notin ManifestModels
                 THEN Commit([w |-> w2, resp |-> Response(500, FALSE, FreshState)], FreshHist)
                 ELSE /\ \E p \in Pids : procs[p].pc = "unborn"
                      /\ Finish(_get_root(Spawn(warn_missing(w2, missing_ports(ManifestPorts, ports)),
                                             modelId)), FreshHist)

\* terminate(): nothing to do when no process was started; else SIGTERM and join(timeout)
PostTerminate ==
    /\ Serving
    /\ UNCHANGED listening
    /\ IF api_state.process = NoProcess
       THEN /\ Finish(_get_root(World), hist)
            /\ UNCHANGED hostPc
       ELSE /\ hostPc' = "join"
            /\ procs' = [procs EXCEPT ![api_state.process].sigterm = procs[api_state.process].alive]
            /\ UNCHANGED <<api_state, pipes, hostLogs, resp, hist>>
            /\ UNCHANGED libVars

\* a terminate() that sends SIGKILL whether the process is alive or not
kill_if_alive_Always(w) ==
    [emit(w, "WARNING") EXCEPT !.procs[w.api.process].sigkill = TRUE]

\* a terminate() that never escalates to SIGKILL
kill_if_alive_Never(w) == w

\* lines 404-406 of terminate(): SIGKILL if the process is still alive
kill_if_alive(w) ==
    IF is_alive(w, w.api.process)
    THEN [emit(w, "WARNING") EXCEPT !.procs[w.api.process].sigkill = TRUE]
    ELSE w

\* a terminate() that overwrites every state
set_terminated_Always(w) == [w EXCEPT !.api.state.state = TERMINATED]

\* lines 410-411 of terminate()
set_terminated(w) ==
    IF model_state(w) \notin {COMPLETE, FAILED}
    THEN [w EXCEPT !.api.state.state = TERMINATED]
    ELSE w

\* lines 404-411 of terminate(), after join(timeout) returned
terminate_finish(w) == set_terminated(kill_if_alive(w))

\* the rest of POST /terminate once join(timeout) has returned: the process exited or the
\* timeout (any value the request gave) elapsed; `hook`: the server offers a shutdown hook
PostTerminateReturn(hook) ==
    /\ hostPc = "join"
    /\ hostPc' = "idle"
    /\ listening' = ~hook
    /\ Finish(_get_root(IF hook THEN terminate_finish(World)
                         ELSE emit(terminate_finish(World), "WARNING")), hist)

\* a timestamp TickSeconds later, saturating once past the limit it is compared with
Age(t, limit) == IF t = NoTime \/ t >= limit THEN t ELSE t + TickSeconds

\* time.time() advances by TickSeconds
Tick ==
    /\ api_state' = [api_state EXCEPT
            !.started_timestamp = Age(@, _SUBPROCESS_STARTUP_TIME_LIMIT),
            !.failed_timestamp = Age(@, _ABNORMAL_TERMINATION_GRACE_PERIOD)]
    /\ procs' = [p \in Pids |-> [procs[p] EXCEPT
            !.diedAt = Age(@, _ABNORMAL_TERMINATION_GRACE_PERIOD)]]
    /\ hist' = [hist EXCEPT !.firstDeadObs = Age(@, _ABNORMAL_TERMINATION_GRACE_PERIOD)]
    /\ UNCHANGED <<pipes, hostPc, listening, hostLogs, resp>>
    /\ UNCHANGED libVars

\* --------------------------------------------------------------- the worker
\* whether the name _model_complete is bound in the worker's module: nothing in
\* web_api.py binds it, so line 195 raises NameError inside the try block
ModelCompleteBound == FALSE

Alive(p) == procs[p].alive
\* the worker runs at pc
At(p, pc) == procs[p].alive /\ procs[p].pc = pc

\* sender.send(msg)
Send(p, msg) == pipes' = [pipes EXCEPT ![p] = Append(@, msg)]

\* the process is gone: exit code as multiprocessing reports it
Dead(proc, exitcode) ==
    [proc EXCEPT !.alive = FALSE, !.pc = "exited", !.exitcode = exitcode, !.diedAt = JustNow,
                 !.sigterm = FALSE, !.sigkill = FALSE]

\* _Updater.update(progress=progress): the fields that changed, or "None"
UpdaterMessage(proc, progress) ==
    Msg(IF proc.u_state = RUNNING THEN "None" ELSE RUNNING,
        IF progress \in {"None", proc.u_progress} THEN "None" ELSE progress,
        NoException, << >>)

\* _Updater.update: remember what was sent, and send it unless nothing changed
update(p, progress) ==
    LET m == UpdaterMessage(procs[p], progress) IN
    /\ procs' = [procs EXCEPT ![p].u_state = RUNNING,
                              ![p].u_progress = IF m.progress = "None" THEN @ ELSE m.progress]
    /\ IF m = Msg("None", "None", NoException, << >>) THEN UNCHANGED pipes ELSE Send(p, m)

\* _Updater.log: one log entry in a message of its own
LogMsg(p, level) == Msg("None", "None", NoException, <<LogEntry(p, procs[p].nlog + 1, level)>>)

HostUnchanged == UNCHANGED <<api_state, hostPc, listening, hostLogs, resp, hist>> /\ UNCHANGED libVars

\* _JobProcess.__call__ up to the try block: SIGTERM handler, redirects, logging
WorkerBoot(p) ==
    /\ At(p, "boot")
    /\ procs' = [procs EXCEPT ![p].pc = "load"]
    /\ UNCHANGED pipes
    /\ HostUnchanged

\* python_models.run_model up to updater.update(): the callable is found (found), or
\* loading raises
WorkerLoad(p, found) ==
    /\ At(p, "load")
    /\ IF found
       THEN LET m == UpdaterMessage(procs[p], "None") IN
            /\ procs' = [procs EXCEPT ![p].pc = "user", ![p].u_state = RUNNING]
            /\ Send(p, m)
       ELSE /\ procs' = [procs EXCEPT ![p].pc = "except", ![p].exc = "RuntimeError",
                                      ![p].outcome = "raised"]
            /\ UNCHANGED pipes
    /\ HostUnchanged

\* the user model calls context.update(progress=progress)
WorkerUpdate(p, progress) ==
    /\ At(p, "user")
    /\ progress # procs[p].u_progress
    /\ update(p, progress)
    /\ HostUnchanged

\* the user model prints or logs a line
WorkerLog(p) ==
    /\ At(p, "user")
    /\ procs[p].nlog < MaxUserLogs
    /\ Send(p, LogMsg(p, "INFO"))
    /\ procs' = [procs EXCEPT ![p].nlog = @ + 1]
    /\ HostUnchanged

\* the user model sets SIGTERM to be ignored
WorkerIgnoreSigterm(p) ==
    /\ At(p, "user")
    /\ ~procs[p].ignoresTerm
    /\ procs' = [procs EXCEPT ![p].ignoresTerm = TRUE]
    /\ UNCHANGED pipes
    /\ HostUnchanged

\* the user model raises
WorkerRaise(p) ==
    /\ At(p, "user")
    /\ procs' = [procs EXCEPT ![p].pc = "except", ![p].exc = "something went wrong",
                              ![p].outcome = "raised"]
    /\ UNCHANGED pipes
    /\ HostUnchanged

\* the user model returns: lines 195-201 of _JobProcess.__call__
WorkerReturn(p) ==
    /\ At(p, "user")
    /\ IF ModelCompleteBound
       THEN /\ procs' = [procs EXCEPT ![p].pc = "done", ![p].outcome = "returned",
                                      ![p].sent = Append(@, COMPLETE)]
            /\ Send(p, Msg(COMPLETE, "1.0", NoException, << >>))
       ELSE /\ procs' = [procs EXCEPT ![p].pc = "except", ![p].outcome = "returned",
                                      ![p].exc = "NameError"]
            /\ UNCHANGED pipes
    /\ HostUnchanged

\* except BaseException: process_logger.critical(...)
WorkerLogCritical(p) ==
    /\ At(p, "except")
    /\ Send(p, LogMsg(p, "CRITICAL"))
    /\ procs' = [procs EXCEPT ![p].pc = "post", ![p].nlog = @ + 1]
    /\ HostUnchanged

\* _JobProcess.__post_exception
WorkerPostException(p) ==
    /\ At(p, "post")
    /\ Send(p, Msg(FAILED, "None",
                   [developer_msg |-> procs[p].exc, msg |-> procs[p].exc, exitCode |-> NoExit,
                    model_id |-> procs[p].model_id], << >>))
    /\ procs' = [procs EXCEPT ![p].pc = "done", ![p].sent = Append(@, FAILED)]
    /\ HostUnchanged

\* __call__ returns and the process exits
WorkerExit(p) ==
    /\ At(p, "done")
    /\ procs' = [procs EXCEPT ![p] = Dead(@, 0)]
    /\ UNCHANGED pipes
    /\ HostUnchanged

\* a pending SIGTERM is delivered: ignored, or the default action before the handler is
\* installed, or _signalterm_handler's exit(0) raising SystemExit where the worker is
WorkerSigterm(p) ==
    /\ Alive(p)
    /\ procs[p].sigterm
    /\ procs' = [procs EXCEPT ![p] =
            IF @.ignoresTerm THEN [@ EXCEPT !.sigterm = FALSE]
            ELSE IF @.pc = "boot" THEN Dead(@, -SIGTERM)
            ELSE IF @.pc \in {"load", "user"}
                 THEN [@ EXCEPT !.sigterm = FALSE, !.pc = "except", !.exc = "SystemExit",
                                !.outcome = IF @ = "None" THEN "interrupted" ELSE @]
            ELSE Dead(@, 0)]
    /\ UNCHANGED pipes
    /\ HostUnchanged

\* a pending SIGKILL takes effect
WorkerSigkill(p) ==
    /\ Alive(p)
    /\ procs[p].sigkill
    /\ procs' = [procs EXCEPT ![p] = Dead(@, -SIGKILL)]
    /\ UNCHANGED pipes
    /\ HostUnchanged

\* somebody outside the host kills the worker (SIGKILL)
ExternalKill(p) ==
    /\ Alive(p)
    /\ procs' = [procs EXCEPT ![p] = Dead(@, -SIGKILL)]
    /\ UNCHANGED pipes
    /\ HostUnchanged

\* ------------------------------------------------------------ specification

\* the host after `api_state = ApiState()`, before any request
HostInit ==
    /\ api_state = [process |-> NoProcess, receiver |-> NoProcess, model_id |-> "None",
                    started_timestamp |-> NoTime, failed_timestamp |-> NoTime,
                    state |-> FreshState]
    /\ procs = [p \in Pids |-> Unborn]
    /\ pipes = [p \in Pids |-> << >>]
    /\ hostPc = "idle"
    /\ listening = TRUE
    /\ hostLogs = 0
    /\ resp = Response(0, FALSE, FreshState)
    /\ hist = FreshHist

\* no library call is under way
NoCall == [pc |-> "none"]
NoBackoff == [pc |-> "none"]
NoCtx == [pc |-> "none"]
NoExt == [pc |-> "none"]
ExtIdle == updater = NoExt /\ grid = NoExt /\ child = NoExt

\* no request is being handled by any thread, no process object was created
NoPosts ==
    [pc |-> [t \in Threads |-> "idle"], code |-> [t \in Threads |-> 0],
     process |-> NoProcess, made |-> 0, started |-> {}, alive |-> {}]

\* an empty log, nothing copied, nothing returned yet
NoSnap ==
    [pc |-> "idle", log |-> << >>, ret_val |-> << >>, purge_count |-> 0, emitted |-> 0,
     returned |-> << >>]

Init ==
    /\ HostInit
    /\ call = NoCall
    /\ backoff = NoBackoff
    /\ ctx = NoCtx
    /\ load = [pc |-> "none"]
    /\ posts = NoPosts
    /\ snap = NoSnap
    /\ ExtIdle

Worker(p) ==
    \/ WorkerBoot(p)
    \/ \E found \in BOOLEAN : WorkerLoad(p, found)
    \/ \E progress \in {"0.5"} : WorkerUpdate(p, progress)
    \/ WorkerLog(p)
    \/ WorkerIgnoreSigterm(p)
    \/ WorkerRaise(p)
    \/ WorkerReturn(p)
    \/ WorkerLogCritical(p)
    \/ WorkerPostException(p)
    \/ WorkerExit(p)
    \/ WorkerSigterm(p)
    \/ WorkerSigkill(p)
    \/ ExternalKill(p)

Next ==
    \/ GetRoot
    \/ \E modelId \in RequestModelIds, ports \in RequestPorts : PostRoot(modelId, ports)
    \/ PostTerminate
    \/ \E hook \in BOOLEAN : PostTerminateReturn(hook)
    \/ Tick
    \/ \E p \in Pids : Worker(p)

Spec == Init /\ [][Next]_vars

\* ========================================================== api_support.py
\* Durations and instants are in milliseconds. A header mapping is a function from
\* header names, as the response spells them, to the header's text.

_X_RATE_LIMIT_BACKOFF_SECOND == 500
_X_RATE_LIMIT_BACKOFF_MINUTE == 30000
_X_RATE_LIMIT_BACKOFF_HOUR == 1800000

\* _X_RATE_LIMIT_BACKOFFS, in the order of the list
_X_RATE_LIMIT_BACKOFFS ==
    << <<"X-RateLimit-Remaining-Second", _X_RATE_LIMIT_BACKOFF_SECOND>>,
       <<"X-RateLimit-Remaining-Minute", _X_RATE_LIMIT_BACKOFF_MINUTE>>,
       <<"X-RateLimit-Remaining-Hour", _X_RATE_LIMIT_BACKOFF_HOUR>> >>

RETRYABLE_METHODS == {"HEAD", "GET", "OPTIONS", "PUT", "DELETE"}
RETRYABLE_STATUSES == {"429", "500", "502", "503", "504"}
\* the sentinel ANY, kept apart from every set of methods or statuses
ANY == {"any"}

\* str.lower on the header names that occur
lower ==
    "Retry-After" :> "retry-after" @@ "retry-after" :> "retry-after"
    @@ "RateLimit-Reset" :> "ratelimit-reset" @@ "RATELIMIT-RESET" :> "ratelimit-reset"
    @@ "X-RateLimit-Remaining-Second" :> "x-ratelimit-remaining-second"
    @@ "x-ratelimit-remaining-second" :> "x-ratelimit-remaining-second"
    @@ "X-RateLimit-Remaining-Minute" :> "x-ratelimit-remaining-minute"
    @@ "X-RateLimit-Remaining-Hour" :> "x-ratelimit-remaining-hour"
    @@ "Content-Type" :> "content-type"

\* float(text) on the header texts that occur, in milliseconds; the other texts
\* raise ValueError
float ==
    "0" :> 0 @@ " 0 " :> 0 @@ "2" :> 2000 @@ "5" :> 5000 @@ "-1" :> -1000

\* datetime.strptime(text, RFC_7231_TIMESTAMP_FORMAT) on the header texts that occur:
\* milliseconds since Thu, 01 Jan 2026 00:00:00 GMT; the other texts raise ValueError
strptime ==
    "Thu, 01 Jan 2026 00:00:03 GMT" :> 3000 @@ "Thu, 01 Jan 2026 00:00:09 GMT" :> 9000

\* str.strip on the header texts that occur
strip(text) == IF text = " 0 " THEN "0" ELSE text

\* what a library function gives back: a value, None, or an exception raised
Value(ms) == [kind |-> "value", ms |-> ms]
None == [kind |-> "None", ms |-> 0]
Raised(exception) == [kind |-> exception, ms |-> 0]

\* a parser that takes the date for the delay
_parse_retry_delay_header_Absolute(delay, now) ==
    IF delay \in DOMAIN float THEN Value(float[delay])
    ELSE IF delay \in DOMAIN strptime THEN Value(strptime[delay])
    ELSE Raised("ValueError")

\* _parse_retry_delay_header(delay), the clock reading now
_parse_retry_delay_header(delay, now) ==
    IF delay \in DOMAIN float THEN Value(float[delay])
    ELSE IF delay \in DOMAIN strptime THEN Value(strptime[delay] - now)
    ELSE Raised("ValueError")

max(a, b) == IF a >= b THEN a ELSE b

\* a lookup that prefers ratelimit-reset
delay_header_ResetFirst(lc) ==
    IF "ratelimit-reset" \in DOMAIN lc THEN "ratelimit-reset"
    ELSE IF "retry-after" \in DOMAIN lc THEN "retry-after"
    ELSE "None"

\* lines 99-101: the first of retry-after, ratelimit-reset that is present
delay_header(lc) ==
    IF "retry-after" \in DOMAIN lc THEN "retry-after"
    ELSE IF "ratelimit-reset" \in DOMAIN lc THEN "ratelimit-reset"
    ELSE "None"

\* lines 104-107: is the header of _X_RATE_LIMIT_BACKOFFS[i] at zero
exhausted(lc, i) ==
    LET header == lower[_X_RATE_LIMIT_BACKOFFS[i][1]] IN
    strip(IF header \in DOMAIN lc THEN lc[header] ELSE "") = "0"

\* a clamp that takes the smaller of the two
delay_backoff_Min(parsed) ==
    IF parsed.kind = "value" THEN Value(IF parsed.ms <= 0 THEN parsed.ms ELSE 0) ELSE parsed

\* lines 98-101 of backoff_from_headers for the delay header found
delay_backoff(parsed) ==
    IF parsed.kind = "value" THEN Value(max(0, parsed.ms)) ELSE parsed

\* lines 104-109 of backoff_from_headers
x_rate_limit_backoff(lc) ==
    IF \E i \in 1..Len(_X_RATE_LIMIT_BACKOFFS) : exhausted(lc, i)
    THEN Value(_X_RATE_LIMIT_BACKOFFS[
            CHOOSE i \in 1..Len(_X_RATE_LIMIT_BACKOFFS) :
                exhausted(lc, i) /\ \A j \in 1..(i - 1) : ~exhausted(lc, j)][2])
    ELSE None

\* backoff_from_headers on the lower-cased mapping
backoff_from_lowered(lc, now) ==
    IF delay_header(lc) # "None"
    THEN delay_backoff(_parse_retry_delay_header(lc[delay_header(lc)], now))
    ELSE x_rate_limit_backoff(lc)

\* backoff_from_headers(headers), the clock reading now: the keys are lower-cased
\* ({k.lower(): headers[k] for k in headers}) and the headers looked up
backoff_from_headers(headers, now) ==
    backoff_from_lowered([l \in {lower[k] : k \in DOMAIN headers} |->
                             headers[CHOOSE k \in DOMAIN headers : lower[k] = l]], now)

\* a test every value passes
_is_retryable_value_Always(value, retryable_values) == TRUE

\* _is_retryable_value
_is_retryable_value(value, retryable_values) ==
    (retryable_values = ANY) \/ (value \in retryable_values)

\* an exception no metadata extractor knows
OtherError == [lib |-> "other", method |-> "None", status |-> "None",
               headers |-> [k \in {} |-> ""], seq |-> 0]

\* the (method, status, headers) an extractor of _metadata_extractors reads from the
\* exception: WebOb errors carry no request method
extract(exception) ==
    [method |-> IF exception.lib = "webob" THEN "None" ELSE exception.method,
     status |-> exception.status, headers |-> exception.headers]

\* time.sleep(backoff): None is no number of seconds
sleep(b) == IF b.kind = "None" THEN Raised("TypeError") ELSE b

\* _Retryable._back_off: "False", or what raised, or the sleep:
\* [kind |-> "value", ms |-> slept] stands for True after the sleep
_back_off(exception, retryable_methods, retryable_statuses, now) ==
    IF exception.lib \notin {"requests", "webob"} THEN [kind |-> "False", ms |-> 0]
    ELSE IF ~_is_retryable_value(extract(exception).method, retryable_methods)
              \/ ~_is_retryable_value(extract(exception).status, retryable_statuses)
    THEN [kind |-> "False", ms |-> 0]
    ELSE sleep(backoff_from_headers(extract(exception).headers, now))

\* retry(retries, retryable_methods, retryable_statuses): "None" stands for an omitted
\* argument; the _Retryable built
retry(retries, retryable_methods, retryable_statuses) ==
    [_retries |-> retries,
     _retryable_methods |-> IF retryable_methods = {"None"} THEN RETRYABLE_METHODS
                            ELSE retryable_methods,
     _retryable_statuses |-> IF retryable_statuses = {"None"} THEN RETRYABLE_STATUSES
                             ELSE retryable_statuses]

\* ---- the calls the model makes
MaxRetries == 2

\* the header mappings of the failing responses
Plain == "Content-Type" :> "application/json"
FailureHeaders ==
    {Plain, Plain @@ "Retry-After" :> "2", Plain @@ "X-RateLimit-Remaining-Second" :> "0"}

\* the errors the wrapped function raises
FnErrors ==
    {[lib |-> "requests", method |-> m, status |-> s, headers |-> h, seq |-> 0] :
        m \in {"GET", "POST"}, s \in {"429", "500", "404"}, h \in FailureHeaders}
    \cup {[lib |-> "webob", method |-> "GET", status |-> s, headers |-> h, seq |-> 0] :
        s \in {"429", "500", "404"}, h \in FailureHeaders}
    \cup {OtherError}

\* _Retryable.__call__ begins: retries = self._retries
RetryCall(retries, retryable_methods, retryable_statuses) ==
    /\ call.pc # "calling"
    /\ call' = [pc |-> "calling",
                self |-> retry(retries, retryable_methods, retryable_statuses),
                retries |-> retries, invocations |-> 0, sleeps |-> << >>, now |-> 0,
                failures |-> {}, last |-> OtherError, raised |-> Raised("None")]
    /\ UNCHANGED <<hostVars, extVars, load, posts, snap, backoff, ctx>>

\* self.fn(*args, **kwargs) returns
FnReturns ==
    /\ call.pc = "calling"
    /\ call' = [call EXCEPT !.pc = "returned", !.invocations = @ + 1]
    /\ UNCHANGED <<hostVars, extVars, load, posts, snap, backoff, ctx>>

\* the call ends raising: `raise` re-raises e, an exception raised by _back_off replaces it
Raise(c, e, b) ==
    [c EXCEPT !.pc = "raised",
              !.raised = IF b.kind \in {"TypeError", "ValueError"} THEN Raised(b.kind)
                         ELSE [kind |-> "reraised", ms |-> e.seq]]

\* a budget test that lets one more retry through
Handle_OneMore(c, e, b) ==
    IF c.retries < 0 THEN Raise(c, e, [kind |-> "False", ms |-> 0])
    ELSE IF b.kind = "value"
    THEN [c EXCEPT !.retries = @ - 1, !.sleeps = Append(@, b.ms), !.now = @ + b.ms]
    ELSE Raise([c EXCEPT !.retries = @ - 1], e, b)

\* lines 127-135 for the exception e, b being what _back_off gave
Handle(c, e, b) ==
    IF c.retries <= 0 THEN Raise(c, e, [kind |-> "False", ms |-> 0])
    ELSE IF b.kind = "value"
    THEN [c EXCEPT !.retries = @ - 1, !.sleeps = Append(@, b.ms), !.now = @ + b.ms]
    ELSE Raise([c EXCEPT !.retries = @ - 1], e, b)

\* the exception the invocation raises: the object is told apart by its number
Thrown(c, exception) == [exception EXCEPT !.seq = c.invocations + 1]

\* self.fn(*args, **kwargs) raises, and the except block runs
FnRaises(exception) ==
    /\ call.pc = "calling"
    /\ call' = Handle([call EXCEPT !.invocations = @ + 1,
                                   !.failures = @ \cup {exception},
                                   !.last = Thrown(call, exception)],
                      Thrown(call, exception),
                      _back_off(exception, call.self._retryable_methods,
                                call.self._retryable_statuses, call.now))
    /\ UNCHANGED <<hostVars, extVars, load, posts, snap, backoff, ctx>>

RetrySpec ==
    Init /\ [][
    \/ \E retries \in 0..MaxRetries, retryable_methods \in {{"None"}, ANY},
          retryable_statuses \in {{"None"}, ANY} :
            RetryCall(retries, retryable_methods, retryable_statuses)
    \/ FnReturns
    \/ \E exception \in FnErrors : FnRaises(exception)]_vars

\* ---- backoff_from_headers applied to response headers
\* a response carries the header under one of the spellings with one of the texts, or
\* does not carry it
HeaderOptions(names, texts) == {[k \in {} |-> ""]} \cup {n :> t : n \in names, t \in texts}

\* the header mappings of the responses: the delay headers carry seconds, an RFC 7231
\* date, or neither
ResponseHeaders ==
    {a @@ b @@ c @@ d @@ e @@ f :
        a \in HeaderOptions({"Retry-After", "retry-after"},
                            {"0", "2", "-1", "Thu, 01 Jan 2026 00:00:03 GMT",
                             "Thu, 01 Jan 2026 00:00:09 GMT", "soon"}),
        b \in HeaderOptions({"RateLimit-Reset", "RATELIMIT-RESET"},
                            {"5", "-1", "Thu, 01 Jan 2026 00:00:03 GMT"}),
        c \in HeaderOptions({"X-RateLimit-Remaining-Second", "x-ratelimit-remaining-second"},
                            {"0", " 0 ", "5"}),
        d \in HeaderOptions({"X-RateLimit-Remaining-Minute"}, {"0", "5"}),
        e \in HeaderOptions({"X-RateLimit-Remaining-Hour"}, {"0", "5"}),
        f \in HeaderOptions({"Content-Type"}, {"application/json"})}

\* a response with its headers has arrived; datetime.now(GMT) when they are read is in
\* milliseconds since Thu, 01 Jan 2026 00:00:00 GMT
BackoffInit ==
    /\ HostInit /\ call = NoCall /\ ctx = NoCtx
    /\ load = [pc |-> "none"] /\ posts = NoPosts /\ snap = NoSnap /\ ExtIdle
    /\ backoff \in {[pc |-> "headers", headers |-> h, now |-> n, result |-> None] :
                        h \in ResponseHeaders, n \in {0, 5000, 12000}}

\* backoff_from_headers(headers)
BackoffFromHeaders ==
    /\ backoff.pc = "headers"
    /\ backoff' = [backoff EXCEPT !.pc = "done",
                                  !.result = backoff_from_headers(backoff.headers, backoff.now)]
    /\ UNCHANGED <<hostVars, extVars, load, posts, snap, call, ctx>>

BackoffSpec == BackoffInit /\ [][BackoffFromHeaders]_vars

\* ======================================================== python_models.py
\* Python values the ports hand out: None, a string, a list of strings, a tds_client
\* Dataset, or a list of port objects
PyNone == [tag |-> "None", s |-> "", l |-> << >>, ports |-> << >>]
PyStr(s) == [tag |-> "str", s |-> s, l |-> << >>, ports |-> << >>]
PyList(l) == [tag |-> "list", s |-> "", l |-> l, ports |-> << >>]
PyDataset(path) == [tag |-> "Dataset", s |-> path, l |-> << >>, ports |-> << >>]
PyPorts(ports) == [tag |-> "list", s |-> "", l |-> << >>, ports |-> ports]

\* bool(value)
truthy(value) ==
    \/ value.tag = "str" /\ value.s # ""
    \/ value.tag = "list" /\ (value.l # << >> \/ value.ports # << >>)
    \/ value.tag = "Dataset"

\* an empty dict
EmptyDict == [k \in {} |-> PyNone]

\* d.get(key)
dictget(d, key) == IF key \in DOMAIN d THEN d[key] ELSE PyNone

\* the port types of as_models.ports
STREAM_PORT == "stream"
MULTISTREAM_PORT == "multistream"
DOCUMENT_PORT == "document"
GRID_PORT == "grid"
STREAM_COLLECTION_PORT == "stream_collection"
DOCUMENT_COLLECTION_PORT == "document_collection"
GRID_COLLECTION_PORT == "grid_collection"

\* Context._port_type_map
_port_type_map ==
    STREAM_PORT :> "StreamPort" @@ MULTISTREAM_PORT :> "MultistreamPort"
    @@ DOCUMENT_PORT :> "DocumentPort" @@ GRID_PORT :> "GridPort"
    @@ STREAM_COLLECTION_PORT :> "StreamPort" @@ DOCUMENT_COLLECTION_PORT :> "DocumentPort"
    @@ GRID_COLLECTION_PORT :> "GridPort"

\* Context.is_collection_port
is_collection_port(porttype) ==
    porttype = STREAM_COLLECTION_PORT \/ porttype = GRID_COLLECTION_PORT
        \/ porttype = DOCUMENT_COLLECTION_PORT

\* PythonPort.__init__ for a binding that is not None (supplied) or None
PythonPort(port, cls, supplied, binding) ==
    [name |-> port.name, type |-> port.type, cls |-> cls,
     _was_supplied |-> supplied, _binding |-> IF supplied THEN binding ELSE EmptyDict]

\* an inner port of a collection: ports[idx].index = idx
InnerPort(port, inner_binding, idx) ==
    [name |-> port.name, type |-> port.type, cls |-> _port_type_map[port.type],
     _was_supplied |-> TRUE, _binding |-> inner_binding, index |-> idx]

\* CollectionPort.__init__ with the inner ports built by Context.__init__
CollectionPort(port, supplied, binding, inner_bindings) ==
    [name |-> port.name, type |-> port.type, cls |-> "CollectionPort",
     _was_supplied |-> supplied, _binding |-> IF supplied THEN binding ELSE EmptyDict,
     ports |-> [i \in 1..Len(inner_bindings) |-> InnerPort(port, inner_bindings[i], i - 1)]]

\* Context.__init__, lines 255-266, for one port of the model; the inner bindings are
\* binding.get('ports', []) if binding else []
ContextPort(port, supplied, binding) ==
    IF is_collection_port(port.type)
    THEN CollectionPort(port, supplied, binding,
                        IF supplied /\ "ports" \in DOMAIN binding THEN binding["ports"]
                        ELSE << >>)
    ELSE PythonPort(port, _port_type_map[port.type], supplied, binding)

\* Context.__init__: the ports by name; bindings.get(port.name, None)
ContextPorts(model_ports, bindings) ==
    [name \in {model_ports[i].name : i \in 1..Len(model_ports)} |->
        ContextPort(model_ports[CHOOSE i \in 1..Len(model_ports) : model_ports[i].name = name],
                    name \in DOMAIN bindings,
                    IF name \in DOMAIN bindings THEN bindings[name] ELSE EmptyDict)]

\* GridPort.dataset: a Dataset of the binding's path. _get_thredds_client hands out a
\* client whether or not the context has a THREDDS configuration (the cached one, or
\* the new Client(url)), so `client is not None` holds on every path
dataset(port, thredds) ==
    PyDataset(dictget(port._binding, "dataset").s)

\* what get hands out for a supplied port
payload(port, thredds) ==
    IF port.cls = "StreamPort" THEN dictget(port._binding, "streamId")
    ELSE IF port.cls = "MultistreamPort" THEN dictget(port._binding, "streamIds")
    ELSE IF port.cls = "DocumentPort" THEN dictget(port._binding, "document")
    ELSE IF port.cls = "GridPort" THEN dataset(port, thredds)
    ELSE PyPorts(port.ports)

\* a get that hands out the default as it is for every class of port
get_Uniform(port, default, thredds) ==
    IF port._was_supplied THEN payload(port, thredds) ELSE default

\* StreamPort.get, MultistreamPort.get, DocumentPort.get, GridPort.get, CollectionPort.get
get(port, default, thredds) ==
    IF port.cls = "CollectionPort"
    THEN IF port._was_supplied THEN payload(port, thredds)
         ELSE IF truthy(default) THEN default ELSE PyList(<< >>)
    ELSE IF port._was_supplied THEN payload(port, thredds) ELSE default

\* DocumentPort.value setter, line 112: the port after self._binding['document'] = value
assigned(port, value) == [port EXCEPT !._binding = ("document" :> value) @@ @]

\* DocumentPort.value setter, lines 114-117: mod_doc
mod_doc(port) ==
    [documentId |-> dictget(port._binding, "documentId"),
     document |-> dictget(port._binding, "document"),
     index |-> IF "index" \in DOMAIN port THEN <<port.index>> ELSE << >>]

\* _Updater.update(modified_documents=...): the argument only draws a deprecation
\* warning; the update sent is built from state, message and progress (both omitted)
update_modified_documents(_state, modified_documents) ==
    IF "state" \in DOMAIN _state /\ _state["state"] = RUNNING THEN << >>
    ELSE <<"state" :> RUNNING>>

\* ---- the jobs the model runs: the manifest's ports and the requests
ModelPorts ==
    << [name |-> "stream", type |-> STREAM_PORT],
       [name |-> "multistream", type |-> MULTISTREAM_PORT],
       [name |-> "document", type |-> DOCUMENT_PORT],
       [name |-> "grid", type |-> GRID_PORT],
       [name |-> "streams", type |-> STREAM_COLLECTION_PORT],
       [name |-> "documents", type |-> DOCUMENT_COLLECTION_PORT],
       [name |-> "grids", type |-> GRID_COLLECTION_PORT] >>

GridBinding == "catalog" :> PyStr("http://tds/catalog.xml") @@ "dataset" :> PyStr("a.nc")

\* a request that binds every port
AllBound ==
    "stream" :> ("streamId" :> PyStr("s1"))
    @@ "multistream" :> ("streamIds" :> PyList(<<"s1", "s2">>))
    @@ "document" :> ("documentId" :> PyStr("abc") @@ "document" :> PyStr("foo"))
    @@ "grid" :> GridBinding
    @@ "streams" :> ("ports" :> <<"streamId" :> PyStr("s1"), "streamId" :> PyStr("s2")>>)
    @@ "documents" :> ("ports" :> <<"documentId" :> PyStr("outdoc1") @@ "document" :> PyStr("foo"),
                                   "document" :> PyStr("bar")>>)
    @@ "grids" :> ("ports" :> <<GridBinding>>)

\* job_request['ports']: no port bound, all of them, or some
JobRequests ==
    {[name \in bound |-> AllBound[name]] :
        bound \in {{}, DOMAIN AllBound, {"stream", "document", "streams"},
                   {"multistream", "grid", "documents", "grids"}}}

\* an element of a collection is named by its index, a port of its own by no index
NoIndex == -1
Indices == {NoIndex, 0, 1}
HasPort(ports, name, index) ==
    /\ name \in DOMAIN ports
    /\ index # NoIndex => ports[name].cls = "CollectionPort" /\ index < Len(ports[name].ports)
PortAt(ports, name, index) ==
    IF index = NoIndex THEN ports[name] ELSE ports[name].ports[index + 1]

\* dict.update for every update of a list: self._state.update(update) in the updater,
\* api_state.state.update(update) for the updates waiting in the pipe
RECURSIVE merge_all(_, _)
merge_all(state, updates) ==
    IF updates = << >> THEN state
    ELSE merge_all(Head(updates) @@ state, Tail(updates))

\* python_models.run_model: updater.update() marks the job running, and the Context is
\* built for the implementation
RunModel(bindings, thredds) ==
    /\ ctx.pc = "none"
    /\ ctx' = [pc |-> "user", bindings |-> bindings, thredds |-> thredds,
               ports |-> ContextPorts(ModelPorts, bindings),
               _state |-> "state" :> RUNNING, sent |-> <<"state" :> RUNNING>>,
               modified |-> {},
               got |-> [name |-> "None", index |-> NoIndex, default |-> PyNone, result |-> PyNone],
               state |-> << >>, snapshot |-> << >>, final |-> FALSE]
    /\ UNCHANGED <<hostVars, extVars, load, posts, snap, call, backoff>>

\* user code: context.ports[name].get(default), or context.ports[name][index].get(default)
PortGet(name, index, default) ==
    /\ ctx.pc = "user" /\ HasPort(ctx.ports, name, index)
    /\ ctx' = [ctx EXCEPT !.got = [name |-> name, index |-> index, default |-> default,
                                   result |-> get(PortAt(ctx.ports, name, index), default,
                                                  ctx.thredds)]]
    /\ UNCHANGED <<hostVars, extVars, load, posts, snap, call, backoff>>

\* a setter that does not compare
differs_Always(port, value) == TRUE

\* DocumentPort.value setter, line 111: does the value differ from the current one
differs(port, value) == value # dictget(port._binding, "document")

\* DocumentPort.value setter on the port (or element) of context c: nothing happens
\* for a value equal to the current one; otherwise the binding is changed and
\* context.update(modified_documents=...) is called. c.modified notes the ports whose
\* setter got that far.
set_value(c, name, index, value) ==
    IF ~differs(PortAt(c.ports, name, index), value) THEN c
    ELSE [c EXCEPT
            !.ports = IF index = NoIndex THEN [@ EXCEPT ![name] = assigned(@, value)]
                      ELSE [@ EXCEPT ![name].ports[index + 1] = assigned(@, value)],
            !.modified = @ \cup {<<name, index>>},
            !._state = merge_all(@, update_modified_documents(@,
                           name :> mod_doc(assigned(PortAt(c.ports, name, index), value)))),
            !.sent = @ \o update_modified_documents(c._state,
                           name :> mod_doc(assigned(PortAt(c.ports, name, index), value)))]

\* user code: context.ports[name].value = value on a document port (or an element)
PortSetValue(name, index, value) ==
    /\ ctx.pc = "user" /\ HasPort(ctx.ports, name, index)
    /\ PortAt(ctx.ports, name, index).cls = "DocumentPort"
    /\ ctx' = set_value(ctx, name, index, value)
    /\ UNCHANGED <<hostVars, extVars, load, posts, snap, call, backoff>>

\* the implementation returns: _JobProcess.__call__ sends COMPLETE with progress 1.0
ModelReturns ==
    /\ ctx.pc = "user"
    /\ ctx' = [ctx EXCEPT !.pc = "returned",
                          !.sent = Append(@, "state" :> COMPLETE @@ "progress" :> "1.0")]
    /\ UNCHANGED <<hostVars, extVars, load, posts, snap, call, backoff>>

\* _get_state on the host: the pipe is read empty and the state copied
PortGetState ==
    /\ ctx.pc \in {"user", "returned"} /\ ~ctx.final
    /\ ctx' = [ctx EXCEPT !.state = merge_all(@, ctx.sent), !.sent = << >>,
                          !.snapshot = merge_all(ctx.state, ctx.sent),
                          !.final = ctx.pc = "returned"]
    /\ UNCHANGED <<hostVars, extVars, load, posts, snap, call, backoff>>

PortSpec ==
    Init /\ [][
    \/ \E bindings \in JobRequests, thredds \in BOOLEAN : RunModel(bindings, thredds)
    \/ \E name \in DOMAIN AllBound, index \in Indices,
          default \in {PyNone, PyStr("default_document"), PyList(<< >>), PyList(<<"s9">>)} :
            PortGet(name, index, default)
    \/ \E name \in DOMAIN AllBound, index \in Indices, value \in {PyStr("foo"), PyStr("baz")} :
            PortSetValue(name, index, value)
    \/ ModelReturns
    \/ PortGetState]_vars

\* ============================================ web_api.py: _load_entrypoint
\* A path is the sequence of its components, "/" first when it is absolute. A
\* filesystem is its directories, its files and what the readable manifests hold.

\* the directory of a hosted model as the tests lay it out: the entrypoint, a README and
\* manifest.json ("valid", "invalid" JSON or "absent"), and, when `nested`, a second
\* model with a manifest of its own under src/
Filesystem(entrypoint, manifest, nested) ==
    [dirs |-> {<<"/">>, <<"/", "srv">>, <<"/", "srv", "model">>, <<"/", "srv", "model", "src">>},
     files |-> {<<"/", "srv", "model">> \o entrypoint, <<"/", "srv", "model", "README">>}
                 \cup (IF manifest = "absent" THEN {}
                       ELSE {<<"/", "srv", "model", "manifest.json">>})
                 \cup (IF nested THEN {<<"/", "srv", "model", "src", "manifest.json">>,
                                       <<"/", "srv", "model", "src", "model.py">>}
                       ELSE {}),
     manifests |->
        (IF manifest = "valid"
         THEN <<"/", "srv", "model", "manifest.json">> :>
                  [name |-> "model", entrypoint |-> entrypoint]
         ELSE [f \in {} |-> 0])
        @@ (IF nested
            THEN <<"/", "srv", "model", "src", "manifest.json">> :>
                     [name |-> "nested", entrypoint |-> <<"model.py">>]
            ELSE [f \in {} |-> 0])]

\* a loader that takes every path for a directory
_load_entrypoint_AsDirectory(fs, cwd, given) ==
    IF Append(given, "manifest.json") \in DOMAIN fs.manifests
    THEN [raised |-> "None", manifest |-> fs.manifests[Append(given, "manifest.json")],
          entrypoint |-> given \o fs.manifests[Append(given, "manifest.json")].entrypoint]
    ELSE [raised |-> "RuntimeError", manifest |-> [name |-> "None", entrypoint |-> << >>],
          entrypoint |-> << >>]

\* _load_entrypoint(path) in the working directory cwd: the manifest and the entrypoint
\* path returned, or the exception raised
_load_entrypoint(fs, cwd, given) ==
    LET path == IF Head(given) = "/" THEN given ELSE cwd \o given  \* os.path.abspath
        head == SubSeq(path, 1, Len(path) - 1)                    \* os.path.split
        tail == path[Len(path)]
        manifest_path ==
            IF path \in fs.files
            THEN IF tail = "manifest.json" THEN path ELSE Append(head, "manifest.json")
            ELSE Append(path, "manifest.json")
        dirname == SubSeq(manifest_path, 1, Len(manifest_path) - 1)
        failure == [raised |-> "RuntimeError",
                    manifest |-> [name |-> "None", entrypoint |-> << >>], entrypoint |-> << >>]
    IN  IF path \notin fs.files \cup fs.dirs THEN failure
        ELSE IF manifest_path \notin DOMAIN fs.manifests THEN failure
        ELSE [raised |-> "None", manifest |-> fs.manifests[manifest_path],
              \* os.path.join keeps an absolute second argument as it is
              entrypoint |-> IF Head(fs.manifests[manifest_path].entrypoint) = "/"
                             THEN fs.manifests[manifest_path].entrypoint
                             ELSE dirname \o fs.manifests[manifest_path].entrypoint]

\* the model paths the host is configured with, absolute or relative to cwd
LoadInit ==
    /\ HostInit /\ call = NoCall /\ backoff = NoBackoff /\ ctx = NoCtx
    /\ posts = NoPosts /\ snap = NoSnap /\ ExtIdle
    /\ load \in {[pc |-> "call", fs |-> Filesystem(entrypoint, manifest, nested),
                  cwd |-> cwd, path |-> path,
                  result |-> [raised |-> "None",
                              manifest |-> [name |-> "None", entrypoint |-> << >>],
                              entrypoint |-> << >>]] :
                    entrypoint \in {<<"model.py">>, <<"src", "model.py">>},
                    manifest \in {"valid", "invalid", "absent"}, nested \in BOOLEAN,
                    cwd \in {<<"/", "srv">>, <<"/", "srv", "model">>},
                    path \in {<<"/", "srv", "model">>, <<"/", "srv", "model", "manifest.json">>,
                              <<"/", "srv", "model", "model.py">>,
                              <<"/", "srv", "model", "src", "model.py">>,
                              <<"/", "srv", "model", "src">>, <<"/", "srv", "model", "README">>,
                              <<"/", "srv", "gone">>, <<"model">>, <<"manifest.json">>,
                              <<"model.py">>, <<"src", "model.py">>}}

\* manifest, entrypoint = _load_entrypoint(app.config['model_path'])
LoadEntrypoint ==
    /\ load.pc = "call"
    /\ load' = [load EXCEPT !.pc = "done",
                            !.result = _load_entrypoint(load.fs, load.cwd, load.path)]
    /\ UNCHANGED <<hostVars, extVars, call, backoff, ctx, posts, snap>>

LoadSpec == LoadInit /\ [][LoadEntrypoint]_vars

\* ================================= web_api.py: handlers on concurrent threads
\* _post_root run by the request threads of a threaded WSGI server, one statement
\* group at a time; nothing in web_api.py takes a lock. posts.process is the field
\* api_state.process, posts.made counts the Process objects created, posts.started
\* and posts.alive are the objects that were started and that are alive.

\* line 435: the test of api_state.process, and the 409 answer
PostBegin(t) ==
    /\ posts.pc[t] = "idle"
    /\ posts' = IF posts.process # NoProcess
                THEN [posts EXCEPT !.code[t] = 409]
                ELSE [posts EXCEPT !.code[t] = 0, !.pc[t] = "reset"]
    /\ UNCHANGED <<hostVars, extVars, call, backoff, ctx, load, snap>>

\* line 438: api_state.reset(); lines 440-463 for a request that names a known model
PostReset(t) ==
    /\ posts.pc[t] = "reset"
    /\ posts' = [posts EXCEPT !.process = NoProcess, !.pc[t] = "create"]
    /\ UNCHANGED <<hostVars, extVars, call, backoff, ctx, load, snap>>

\* lines 465-474: the Pipe, and api_state.process = mp.Process(target=job_process)
PostCreate(t) ==
    /\ posts.pc[t] = "create"
    /\ posts.made < MaxProcs
    /\ posts' = [posts EXCEPT !.made = @ + 1, !.process = posts.made + 1, !.pc[t] = "start"]
    /\ UNCHANGED <<hostVars, extVars, call, backoff, ctx, load, snap>>

\* line 476: api_state.process.start() on whatever the field holds now, and the answer;
\* on None (AttributeError) or on a Process that was started before (AssertionError)
\* handle_500 terminates the process the field holds and answers 500
PostStart(t) ==
    /\ posts.pc[t] = "start"
    /\ posts' = IF posts.process = NoProcess
                THEN [posts EXCEPT !.code[t] = 500, !.pc[t] = "idle"]
                ELSE IF posts.process \in posts.started
                THEN [posts EXCEPT !.code[t] = 500, !.pc[t] = "idle",
                                   !.alive = @ \ {posts.process}]
                ELSE [posts EXCEPT !.code[t] = 200, !.pc[t] = "idle",
                                   !.started = @ \cup {posts.process},
                                   !.alive = @ \cup {posts.process}]
    /\ UNCHANGED <<hostVars, extVars, call, backoff, ctx, load, snap>>

RaceSpec ==
    Init /\ [][\E t \in Threads :
                 PostBegin(t) \/ PostReset(t) \/ PostCreate(t) \/ PostStart(t)]_vars

\* _get_state's copy and purge of api_state.state['log'], one statement at a time,
\* beside a thread whose logging call reaches _WebAPILogHandler.emit. Log entries are
\* numbered in the order emitted.

\* _WebAPILogHandler.emit: append to the state's log
LogEmit ==
    /\ snap.emitted < MaxEmits
    /\ snap' = [snap EXCEPT !.emitted = @ + 1, !.log = Append(@, snap.emitted + 1)]
    /\ UNCHANGED <<hostVars, extVars, call, backoff, ctx, load, posts>>

\* line 344: ret_val = copy.deepcopy(api_state.state)
SnapCopy ==
    /\ snap.pc = "idle"
    /\ snap' = [snap EXCEPT !.pc = "copied", !.ret_val = snap.log]
    /\ UNCHANGED <<hostVars, extVars, call, backoff, ctx, load, posts>>

\* line 347: purge_count = len(api_state.state['log'])
SnapCount ==
    /\ snap.pc = "copied"
    /\ snap' = [snap EXCEPT !.pc = "purging", !.purge_count = Len(snap.log)]
    /\ UNCHANGED <<hostVars, extVars, call, backoff, ctx, load, posts>>

\* lines 348-351: one turn of the loop, del api_state.state['log'][0]
SnapDelete ==
    /\ snap.pc = "purging" /\ snap.purge_count > 0
    /\ snap' = [snap EXCEPT !.purge_count = @ - 1, !.log = Tail(@)]
    /\ UNCHANGED <<hostVars, extVars, call, backoff, ctx, load, posts>>

\* line 363: return ret_val, which the handler sends to the client
SnapReturn ==
    /\ snap.pc = "purging" /\ snap.purge_count = 0
    /\ snap' = [snap EXCEPT !.pc = "idle", !.returned = @ \o snap.ret_val, !.ret_val = << >>]
    /\ UNCHANGED <<hostVars, extVars, call, backoff, ctx, load, posts>>

PurgeSpec ==
    Init /\ [][LogEmit \/ SnapCopy \/ SnapCount \/ SnapDelete \/ SnapReturn]_vars

\* ------------------------------------------- _Updater.update (web_api.py:50-72)
\* One worker's _Updater, by itself: run_model's first update() and the calls
\* update(message, progress) of the user model, with what the sender was given and
\* the arguments of the last call.
MaxUpdates == 3       \* update calls in one job, run_model's own included

\* the default of an argument that was not passed; equal to no value a caller passes
_SENTINEL == "_SENTINEL"

\* an updater that sends every argument that was passed
_Updater_update_AlwaysSend(u, message, progress) ==
    LET given == [state |-> RUNNING, message |-> message, progress |-> progress]
        keys == {k \in DOMAIN given : given[k] # _SENTINEL}
        changes == [k \in keys |-> given[k]] IN
    [u EXCEPT !._state = changes @@ @, !.sender = Append(@, changes)]

\* _Updater.update: the dictionary of the fields that were passed and differ from
\* what self._state holds; when it is not empty it is remembered and sent
_Updater_update(u, message, progress) ==
    LET given == [state |-> RUNNING, message |-> message, progress |-> progress]
        remembered(k) == IF k \in DOMAIN u._state THEN u._state[k] ELSE _SENTINEL
        keys == {k \in DOMAIN given : given[k] \notin {_SENTINEL, remembered(k)}}
        changes == [k \in keys |-> given[k]] IN
    IF keys # {}
    THEN [u EXCEPT !._state = changes @@ @, !.sender = Append(@, changes)]
    ELSE u

\* _JobProcess.__call__ has made the job's updater; nothing was sent yet
UpdaterInit ==
    /\ HostInit /\ call = NoCall /\ backoff = NoBackoff /\ ctx = NoCtx
    /\ load = [pc |-> "none"] /\ posts = NoPosts /\ snap = NoSnap
    /\ grid = NoExt /\ child = NoExt
    /\ updater = [pc |-> "job", _state |-> [k \in {} |-> ""], sender |-> << >>, calls |-> 0,
                  message |-> _SENTINEL, progress |-> _SENTINEL]

\* run_model: `updater.update()` marks the job as running
RunModelUpdate ==
    /\ updater.pc = "job" /\ updater.calls = 0
    /\ updater' = [_Updater_update(updater, _SENTINEL, _SENTINEL) EXCEPT
                        !.calls = 1, !.message = _SENTINEL, !.progress = _SENTINEL]
    /\ UNCHANGED <<hostVars, call, backoff, ctx, load, posts, snap, grid, child>>

\* the user model calls context.update(message=..., progress=...): with or without a
\* message, which may be None, and with or without a progress value
ModelUpdate(message, progress) ==
    /\ updater.pc = "job" /\ updater.calls \in 1..(MaxUpdates - 1)
    /\ updater' = [_Updater_update(updater, message, progress) EXCEPT
                        !.calls = @ + 1, !.message = message, !.progress = progress]
    /\ UNCHANGED <<hostVars, call, backoff, ctx, load, posts, snap, grid, child>>

UpdaterSpec ==
    UpdaterInit /\ [][
    \/ RunModelUpdate
    \/ \E message \in {_SENTINEL, "None", "loading", "solving"},
          progress \in {_SENTINEL, "0.1", "0.5"} :
            ModelUpdate(message, progress)]_vars

\* ------------- grid ports: the client cache and upload_data (python_models.py:121-172)
\* One grid port of a Context, by itself, with the context's THREDDS configuration:
\* lookups of the client for a catalog URL, as GridPort.dataset makes them, and calls
\* of upload_data. Client objects are told apart by the order they were made in.
MaxLookups == 2       \* lookups of a client in one job
MaxUploads == 2       \* uploads made in one job

OUTPUT_PORT == "output"

\* the context URL the client library derives from the URL a client was made for: the
\* catalogs of one server share it
context_url(url) == IF url = "http://other/thredds/catalog.xml" THEN "http://other/thredds"
                    ELSE "http://tds/thredds"

\* a client object: the URL it was made for, its number, and the configuration
\* ("read", "upload") or lookup ("port") it was made for
Client(url, serial, role) == [url |-> url, serial |-> serial, role |-> role]
NoClient == Client("None", 0, "None")

\* Context.thredds_client: made from threddsConfiguration on first use
thredds_client(g) ==
    IF g._thredds_client = NoClient /\ g._thredds_config # "None"
    THEN [g EXCEPT !._thredds_client = Client(g._thredds_config, g.made + 1, "read"),
                   !.made = @ + 1]
    ELSE g

\* Context.thredds_upload_client: made from threddsUploadConfiguration on first use
thredds_upload_client(g) ==
    IF g._thredds_upload_client = NoClient /\ g._thredds_upload_config # "None"
    THEN [g EXCEPT !._thredds_upload_client = Client(g._thredds_upload_config, g.made + 1, "upload"),
                   !.made = @ + 1]
    ELSE g

\* a cache whose newest client wins
_cache_thredds_client_Overwrite(g, client) ==
    IF client = NoClient THEN [g |-> g, ret |-> NoClient]
    ELSE [g |-> [g EXCEPT !.clients = (context_url(client.url) :> client) @@ @], ret |-> client]

\* BaseContext._cache_thredds_client: setdefault(client.context_url, client)
_cache_thredds_client(g, client) ==
    IF client = NoClient THEN [g |-> g, ret |-> NoClient]
    ELSE IF context_url(client.url) \in DOMAIN g.clients
    THEN [g |-> g, ret |-> g.clients[context_url(client.url)]]
    ELSE [g |-> [g EXCEPT !.clients = (context_url(client.url) :> client) @@ @], ret |-> client]

\* BaseContext._get_thredds_client: the "main" client is cached first, then Client(url)
_get_thredds_client(g, url) ==
    LET main == thredds_client(g)
        cached == _cache_thredds_client(main, main._thredds_client).g IN
    _cache_thredds_client([cached EXCEPT !.made = @ + 1], Client(url, cached.made + 1, "port"))

\* GridPort.upload_data after the test of the direction, lines 135-151: the context
\* afterwards; raised tells how the call ended. getattr(thredds_client, 'catalog_url',
\* None) is the attribute of the read client when there is one and it has the attribute
upload_checked(g, path, client) ==
    LET up == thredds_upload_client(g)
        rd == thredds_client(up)
        client_catalog_url == IF rd._thredds_client = NoClient THEN "None" ELSE rd.client_catalog
        sent(c, used) ==
            [c EXCEPT !.raised = "None",
                      !.uploads = Append(@, [client |-> used,
                                             path |-> IF path \in {"None", ""}
                                                      THEN g.dataset_path ELSE path])] IN
    IF client # NoClient THEN sent(g, client)
    ELSE IF up._thredds_upload_client = NoClient
    THEN [up EXCEPT !.raised = "ValueError: no data upload client"]
    ELSE IF g.catalog_url # client_catalog_url
    THEN [rd EXCEPT !.raised = "ValueError: own TDS server only"]
    ELSE sent(rd, up._thredds_upload_client)

\* an upload that does not look at the direction
upload_data_AnyDirection(g, path, client) == upload_checked(g, path, client)

\* GridPort.upload_data(data, path, client): the port must be an output port
upload_data(g, path, client) ==
    IF g.direction # OUTPUT_PORT
    THEN [g EXCEPT !.raised = "ValueError: only valid for output ports"]
    ELSE upload_checked(g, path, client)

\* Context.__init__ for a job with one grid port: the port's direction and binding, the
\* two THREDDS configurations, and what a read client answers for catalog_url
GridInit ==
    /\ HostInit /\ call = NoCall /\ backoff = NoBackoff /\ ctx = NoCtx
    /\ load = [pc |-> "none"] /\ posts = NoPosts /\ snap = NoSnap
    /\ updater = NoExt /\ child = NoExt
    /\ grid \in {[pc |-> "user", direction |-> d, catalog_url |-> c, dataset_path |-> "a.nc",
                  _thredds_config |-> r, _thredds_upload_config |-> u, client_catalog |-> a,
                  _thredds_client |-> NoClient, _thredds_upload_client |-> NoClient,
                  clients |-> [k \in {} |-> NoClient], made |-> 0, uploads |-> << >>,
                  op |-> "none", lookups |-> 0, url |-> "None", ret |-> NoClient,
                  path |-> "None", passed |-> FALSE, raised |-> "None"] :
                    d \in {"input", OUTPUT_PORT},
                    c \in {"None", "http://tds/thredds/catalog/a/catalog.xml"},
                    r \in {"None", "http://tds/thredds"},
                    u \in {"None", "http://tdm/upload"},
                    a \in {"None", "http://tds/thredds/catalog/a/catalog.xml"}}

\* a grid port's dataset is read for the first time: _get_thredds_client(catalog_url),
\* for two catalogs of the environment's own server and one of another server
GetThreddsClient(url) ==
    /\ grid.pc = "user" /\ grid.lookups < MaxLookups
    /\ grid' = [_get_thredds_client(grid, url).g EXCEPT
                   !.op = "lookup", !.lookups = @ + 1, !.url = url,
                   !.ret = _get_thredds_client(grid, url).ret]
    /\ UNCHANGED <<hostVars, call, backoff, ctx, load, posts, snap, updater, child>>

\* user code: port.upload_data(data, path, client); a client passed is one the user
\* made
UploadData(path, passed) ==
    /\ grid.pc = "user" /\ Len(grid.uploads) < MaxUploads
    /\ grid' = [upload_data(grid, path, IF passed THEN Client("http://mine/upload", 0, "user")
                                        ELSE NoClient) EXCEPT
                   !.op = "upload", !.path = path, !.passed = passed]
    /\ UNCHANGED <<hostVars, call, backoff, ctx, load, posts, snap, updater, child>>

GridSpec ==
    GridInit /\ [][
    \/ \E url \in {"http://tds/thredds/catalog/a/catalog.xml",
                   "http://tds/thredds/catalog/b/catalog.xml",
                   "http://other/thredds/catalog.xml"} : GetThreddsClient(url)
    \/ \E path \in {"None", "", "b.nc"}, passed \in BOOLEAN : UploadData(path, passed)]_vars

\* ---------------------------- runtime.subprocess.execute (runtime/subprocess.py:8-21)
\* execute beside the child it started: the child writes the lines of its script to
\* its stdout and stderr pipes, one write at a time, and exits; a write to a full pipe
\* blocks until the parent has read from that pipe. The parent's reads block until a
\* line or the end of the file is there.
PipeCapacity == 2     \* lines a pipe holds before a write to it blocks
MaxLines == 3         \* lines a child writes before it exits

\* subprocess.Popen(command, stdout=PIPE, stderr=PIPE): the child and its two pipes,
\* and execute at its first `for line in process.stdout`
ExecInit ==
    /\ HostInit /\ call = NoCall /\ backoff = NoBackoff /\ ctx = NoCtx
    /\ load = [pc |-> "none"] /\ posts = NoPosts /\ snap = NoSnap
    /\ updater = NoExt /\ grid = NoExt
    /\ child \in {[pc |-> "stdout", exit_code |-> NoExit, returned |-> NoExit,
                   script |-> s, written |-> 0, running |-> TRUE, returncode |-> c,
                   stdout |-> << >>, stderr |-> << >>, log |-> << >>] :
                     s \in UNION {[1..n -> {"stdout", "stderr"}] : n \in 0..MaxLines},
                     c \in {0, 1}}

\* the child writes the next line of its script; the write needs room in the pipe
ChildWrite ==
    /\ child.pc # "none" /\ child.running /\ child.written < Len(child.script)
    /\ LET stream == child.script[child.written + 1] IN
       /\ Len(child[stream]) < PipeCapacity
       /\ child' = [child EXCEPT ![stream] = Append(@, child.written + 1), !.written = @ + 1]
    /\ UNCHANGED <<hostVars, call, backoff, ctx, load, posts, snap, updater, grid>>

\* the child has written everything and exits, which closes its ends of the pipes
ChildExit ==
    /\ child.pc # "none" /\ child.running /\ child.written = Len(child.script)
    /\ child' = [child EXCEPT !.running = FALSE]
    /\ UNCHANGED <<hostVars, call, backoff, ctx, load, posts, snap, updater, grid>>

\* `for line in process.<stream>`: a line is there; updater.log(line, level)
ReadLine(stream, level) ==
    /\ child.pc = stream /\ child[stream] # << >>
    /\ child' = [child EXCEPT ![stream] = Tail(@),
                              !.log = Append(@, [level |-> level, line |-> Head(child[stream])])]
    /\ UNCHANGED <<hostVars, call, backoff, ctx, load, posts, snap, updater, grid>>

\* `for line in process.stdout` ends: the pipe is empty and its write end is closed
StdoutEnds ==
    /\ child.pc = "stdout" /\ child.stdout = << >> /\ ~child.running
    /\ child' = [child EXCEPT !.pc = "stderr"]
    /\ UNCHANGED <<hostVars, call, backoff, ctx, load, posts, snap, updater, grid>>

\* `for line in process.stderr` ends; `if exit_code is not None: return exit_code`
StderrEnds ==
    /\ child.pc = "stderr" /\ child.stderr = << >> /\ ~child.running
    /\ child' = IF child.exit_code # NoExit
                THEN [child EXCEPT !.pc = "returned", !.returned = child.exit_code]
                ELSE [child EXCEPT !.pc = "poll"]
    /\ UNCHANGED <<hostVars, call, backoff, ctx, load, posts, snap, updater, grid>>

\* exit_code = process.poll(), and the loop starts over
Poll ==
    /\ child.pc = "poll"
    /\ child' = [child EXCEPT !.pc = "stdout",
                              !.exit_code = IF child.running THEN NoExit ELSE child.returncode]
    /\ UNCHANGED <<hostVars, call, backoff, ctx, load, posts, snap, updater, grid>>

\* the operating system runs the child and the parent whenever they can run
ExecLiveSpec ==
    ExecInit /\ [][
    \/ ChildWrite
    \/ ChildExit
    \/ ReadLine("stdout", "STDOUT")
    \/ ReadLine("stderr", "STDERR")
    \/ StdoutEnds
    \/ StderrEnds
    \/ Poll]_vars
    /\ WF_vars(ChildWrite \/ ChildExit)
    /\ WF_vars(ReadLine("stdout", "STDOUT") \/ ReadLine("stderr", "STDERR")
                 \/ StdoutEnds \/ StderrEnds \/ Poll)

\* ================================================================== claims
job == api_state.process
InJob == job # NoProcess
NonTerminal == {PENDING, RUNNING}

\* a step in which a handler answers with a snapshot
SnapshotStep ==
    /\ resp'.snapshot
    /\ hostPc' = "idle"
    /\ \/ GetRoot
       \/ PostTerminate
       \/ \E hook \in BOOLEAN : PostTerminateReturn(hook)
       \/ \E modelId \in RequestModelIds, ports \in RequestPorts : PostRoot(modelId, ports)

TerminateReturns == \E hook \in BOOLEAN : PostTerminateReturn(hook)

\* ---- C1
LiveWorkers == {p \in Pids : procs[p].alive}

\* C1: at most one worker process spawned by the host is alive at any moment.
C1_Exclusivity == Cardinality(LiveWorkers) <= 1

\* a second POST / was answered 409 while the first job's worker was alive
C1_Witness == resp.code = 409 /\ Cardinality(LiveWorkers) = 1

\* ---- C2
UnreadNonTerminal ==
    InJob /\ \E i \in 1..Len(pipes[job]) : pipes[job][i].state = RUNNING

\* C2: once a snapshot of the job has shown COMPLETE, FAILED or TERMINATED, no later
\* snapshot shows PENDING or RUNNING, non-terminal updates unread in the pipe or not.
C2_StickyTerminals ==
    (hist.firstTerminal # "None" /\ resp.snapshot) => resp.body.state \notin NonTerminal

\* TERMINATED was shown by POST /terminate; the RUNNING update is still unread and a
\* later POST / (409) returned another snapshot
C2_Witness ==
    /\ hist.firstTerminal = TERMINATED
    /\ resp.code = 409 /\ resp.snapshot
    /\ UnreadNonTerminal

\* ---- C3
\* C3: once the host state of a job is terminal the state field never changes again:
\* every later snapshot shows the terminal state that was shown first.
C3_TerminalNeverChanges ==
    (hist.firstTerminal # "None" /\ resp.snapshot) => resp.body.state = hist.firstTerminal

\* ---- C4
Key(e) == <<e.pid, e.id>>
Keys(entries) == {Key(e) : e \in entries}

\* the log entries of the current job: the host's and the worker's
EmittedKeys ==
    {<<NoProcess, i>> : i \in 1..hostLogs}
        \cup (IF InJob THEN {<<job, i>> : i \in 1..procs[job].nlog} ELSE {})

RECURSIVE Flatten(_)
\* the log entries carried by a sequence of messages
Flatten(msgs) == IF msgs = << >> THEN << >> ELSE Head(msgs).log \o Flatten(Tail(msgs))

PipeLog == IF InJob THEN Flatten(pipes[job]) ELSE << >>
StateLog == api_state.state.log

Count(seq, k) == Cardinality({i \in 1..Len(seq) : Key(seq[i]) = k})

\* where the entry k is: in how many places, counted with multiplicity
Places(k) ==
    Count(StateLog, k) + Count(PipeLog, k) + (IF k \in Keys(hist.returned) THEN 1 ELSE 0)

\* C4 as stated: every log entry the worker sent or the host logged is returned by
\* exactly one response; none twice, none dropped. An entry not yet returned must
\* still be on its way: in the state's log, or in a pipe the host will still read.
C4_ExactlyOnce ==
    /\ hist.twice = {}
    /\ \A k \in EmittedKeys \ Keys(hist.returned) :
          \/ Count(StateLog, k) = 1
          \/ Count(PipeLog, k) = 1 /\ DrainGuard(World)

\* C4 as amended: no entry is returned twice; every entry is in exactly one place
\* (unread in the pipe, in the state's log, or returned once); what the host has read
\* or logged during a job is returned by the response of that same request.
C4_AtMostOnce ==
    /\ hist.twice = {}
    /\ \A k \in EmittedKeys : Places(k) = 1
    /\ (InJob /\ hostPc = "idle") => StateLog = << >>

\* the job was terminated with a worker entry unread; the host's entries were returned
C4_Witness ==
    /\ model_state(World) = TERMINATED
    /\ PipeLog # << >>
    /\ \E e \in hist.returned : e.pid = NoProcess

\* ---- C5
SpawnedNow == api_state'.process # api_state.process /\ procs'[api_state'.process].alive

\* C5: POST / with a known modelId is answered 409 without spawning when a worker is
\* alive, and resets to PENDING and spawns a worker when none is alive.
C5_PostSpawnsUnlessAlive ==
    [][(\E ports \in RequestPorts : PostRoot("test_model", ports)) =>
         IF subprocess_running(World)
         THEN resp'.code = 409 /\ procs' = procs
         ELSE resp'.code = 200 /\ SpawnedNow /\ resp'.body.state = PENDING]_vars

\* ---- C6
\* C6: a worker whose user model function returned without raising sends exactly one
\* terminal message, COMPLETE, and no FAILED message.
C6_CleanReturnSendsComplete ==
    \A p \in Pids : procs[p].outcome = "returned" =>
        /\ \A i \in 1..Len(procs[p].sent) : procs[p].sent[i] # FAILED
        /\ procs[p].pc = "done" => procs[p].sent = <<COMPLETE>>

\* ---- C7
WorkerException(p) ==
    [developer_msg |-> procs[p].exc, msg |-> procs[p].exc, exitCode |-> NoExit,
     model_id |-> procs[p].model_id]

\* C7: when loading or running the user model raised, the worker logs CRITICAL, then
\* sends one FAILED message with the exception and the request's modelId, never
\* COMPLETE; and once the worker is gone and its messages are read, the snapshots of
\* the job show FAILED with that exception.
C7_RaisedIsReportedFailed ==
    \A p \in Pids : procs[p].outcome = "raised" =>
        /\ \A i \in 1..Len(procs[p].sent) : procs[p].sent[i] # COMPLETE
        /\ Len(procs[p].sent) <= 1
        /\ procs[p].pc = "done" => procs[p].sent = <<FAILED>> /\ procs[p].nlog >= 1
        /\ (/\ p = job /\ resp.snapshot /\ hist.firstTerminal = FAILED
            /\ procs[p].sent = <<FAILED>> /\ pipes[p] = << >>)
           => resp.body.state = FAILED /\ resp.body.exception = WorkerException(p)

\* ---- C8
DeadJob == InJob /\ ~procs[job].alive

C9_TerminateKeepsCompleteAndFailed ==
    hostPc = "join" =>
        /\ model_state(terminate_finish(World)) = TERMINATED
              <=> model_state(World) \notin {COMPLETE, FAILED}
        /\ model_state(World) \in {COMPLETE, FAILED} =>
              /\ model_state(terminate_finish(World)) = model_state(World)
              /\ terminate_finish(World).api.state.exception = api_state.state.exception

\* terminate() went as far as SIGKILL on a job that had failed with the worker's
\* exception, and the state still shows it
C9_Witness ==
    /\ InJob /\ hostPc = "idle" /\ procs[job].sigkill
    /\ model_state(World) = FAILED
    /\ api_state.state.exception = WorkerException(job)

\* ---- C10
\* C10 as stated: when POST /terminate returns for a job whose worker ignores SIGTERM,
\* the worker is no longer alive and the snapshot shows TERMINATED.
C10_TerminateKillsAndShowsTerminated ==
    [][(TerminateReturns /\ procs[job].ignoresTerm)
       => ~procs'[job].alive /\ resp'.snapshot /\ resp'.body.state = TERMINATED]_vars

\* C10 as amended: when POST /terminate returns for a job whose worker ignores SIGTERM
\* and is still alive after the join, the worker has been sent SIGKILL (nothing waits
\* for it to exit) and the snapshot shows TERMINATED, unless the state was already
\* COMPLETE or FAILED, which is then shown unchanged.
C10_TerminateSendsKill ==
    [][(TerminateReturns /\ procs[job].ignoresTerm /\ procs[job].alive)
       => /\ procs'[job].sigkill \/ ~procs'[job].alive
          /\ resp'.snapshot
          /\ resp'.body.state = IF model_state(World) \in {COMPLETE, FAILED}
                                THEN model_state(World) ELSE TERMINATED]_vars

\* POST /terminate returned TERMINATED for a worker that ignores SIGTERM and is being killed
C10_Witness ==
    /\ InJob /\ hostPc = "idle" /\ procs[job].ignoresTerm /\ procs[job].sigkill
    /\ resp.snapshot /\ resp.body.state = TERMINATED

\* ---- C13
InCall == call.pc \in {"calling", "returned", "raised"}
IsHTTPError(e) == e.lib \in {"requests", "webob"}

\* the wrapper is configured to retry the error's method and status
RetryableHere(e) ==
    /\ IsHTTPError(e)
    /\ _is_retryable_value(extract(e).method, call.self._retryable_methods)
    /\ _is_retryable_value(e.status, call.self._retryable_statuses)

\* the headers carry a Retry-After or RateLimit-Reset, or an X-RateLimit-Remaining at zero
HasRateLimitHeader(headers) ==
    \E k \in DOMAIN headers :
        \/ lower[k] \in {"retry-after", "ratelimit-reset"}
        \/ /\ lower[k] \in {"x-ratelimit-remaining-second", "x-ratelimit-remaining-minute",
                            "x-ratelimit-remaining-hour"}
           /\ strip(headers[k]) = "0"

\* the error the caller gets is the one the last invocation raised
LastErrorPropagated ==
    call.pc = "raised" /\ call.raised = [kind |-> "reraised", ms |-> call.invocations]

\* C13: when every call of a function wrapped with budget N fails with a retryable HTTP
\* error that carries a usable backoff header, the function is invoked exactly N+1 times
\* (once for N = 0) and the caller gets the error of the last invocation.
C13_BudgetExhausted ==
    (InCall /\ \A e \in call.failures : RetryableHere(e) /\ HasRateLimitHeader(e.headers)) =>
        /\ call.invocations <= call.self._retries + 1
        /\ call.pc = "raised" =>
              call.invocations = call.self._retries + 1 /\ LastErrorPropagated

\* a budget of 2 was used up by three failing invocations
C13_Witness ==
    /\ call.pc = "raised" /\ call.self._retries = MaxRetries /\ call.invocations = MaxRetries + 1
    /\ \A e \in call.failures : RetryableHere(e) /\ HasRateLimitHeader(e.headers)
    /\ LastErrorPropagated

\* ---- C14
RateLimited(e) ==
    /\ IsHTTPError(e) /\ e.status = "429"
    /\ \E k \in DOMAIN e.headers : lower[k] = "retry-after" /\ e.headers[k] = "2"

\* C14: a wrapped call that fails k times (1 <= k <= N) with 429 and Retry-After: 2 and
\* then succeeds returns after k+1 invocations, having slept 2 s before each retry.
C14_SleepsRetryAfter ==
    (call.pc = "returned" /\ call.failures # {} /\ \A e \in call.failures : RateLimited(e)) =>
        /\ call.invocations - 1 \in 1..call.self._retries
        /\ call.sleeps = [i \in 1..(call.invocations - 1) |-> float["2"]]

\* two rate-limited failures, then success
C14_Witness ==
    /\ call.pc = "returned" /\ call.invocations = 3
    /\ call.failures # {} /\ \A e \in call.failures : RateLimited(e)
    /\ call.sleeps = <<2000, 2000>>

\* ---- C15
\* the last invocation failed with an HTTP error without any rate-limit header
FailedWithoutHeader ==
    /\ InCall /\ call.last.seq = call.invocations
    /\ IsHTTPError(call.last) /\ ~HasRateLimitHeader(call.last.headers)

\* C15: when the failed call's response carries no rate-limit header, the function is not
\* invoked again, whatever the method and status, and the caller gets the original error.
C15_NoHeaderNoRetry ==
    FailedWithoutHeader => LastErrorPropagated

\* ---- C16
\* C16: with retry(retryable_methods=ANY), a first call that fails with 500 and no
\* rate-limit header is followed by a second invocation (which succeeds and is returned).
C16_ServerErrorRetried ==
    (/\ InCall /\ call.self._retryable_methods = ANY /\ call.self._retries >= 1
     /\ call.self._retryable_statuses = RETRYABLE_STATUSES
     /\ call.invocations = 1 /\ call.last.seq = 1
     /\ IsHTTPError(call.last) /\ call.last.status = "500"
     /\ ~HasRateLimitHeader(call.last.headers))
    => call.pc = "calling"

\* ---- C17
HasHeader(headers, canonical) == \E k \in DOMAIN headers : lower[k] = canonical
HeaderText(headers, canonical) ==
    headers[CHOOSE k \in DOMAIN headers : lower[k] = canonical]
AtZero(headers, canonical) ==
    HasHeader(headers, canonical) /\ strip(HeaderText(headers, canonical)) = "0"
DelayOf(text, now) == delay_backoff(_parse_retry_delay_header(text, now))

\* the backoff of the first header that applies, in the order Retry-After,
\* RateLimit-Reset, X-RateLimit-Remaining-Second, -Minute, -Hour
FirstApplicable(headers, now) ==
    IF HasHeader(headers, "retry-after")
    THEN DelayOf(HeaderText(headers, "retry-after"), now)
    ELSE IF HasHeader(headers, "ratelimit-reset")
    THEN DelayOf(HeaderText(headers, "ratelimit-reset"), now)
    ELSE IF AtZero(headers, "x-ratelimit-remaining-second") THEN Value(500)
    ELSE IF AtZero(headers, "x-ratelimit-remaining-minute") THEN Value(30000)
    ELSE IF AtZero(headers, "x-ratelimit-remaining-hour") THEN Value(1800000)
    ELSE None

\* C17: backoff_from_headers gives the backoff of the first applicable header in the
\* order Retry-After, RateLimit-Reset, X-RateLimit-Remaining-Second (0.5 s), -Minute
\* (30 s), -Hour (1800 s); a Remaining header applies only at "0"; header names match
\* whatever their case; the result is None when no header applies.
C17_Precedence ==
    backoff.pc = "done" => backoff.result = FirstApplicable(backoff.headers, backoff.now)

\* an upper-case RateLimit-Reset wins over an exhausted per-second quota
C17_Witness ==
    /\ backoff.pc = "done"
    /\ ~HasHeader(backoff.headers, "retry-after")
    /\ "RATELIMIT-RESET" \in DOMAIN backoff.headers /\ backoff.headers["RATELIMIT-RESET"] = "5"
    /\ AtZero(backoff.headers, "x-ratelimit-remaining-second")
    /\ backoff.result = Value(5000)

\* ---- C18
\* the delay header backoff_from_headers reads
DelayText(headers) ==
    IF HasHeader(headers, "retry-after") THEN HeaderText(headers, "retry-after")
    ELSE HeaderText(headers, "ratelimit-reset")

\* C18: an HTTP-date D in a delay header is read as GMT and gives max(0, D - now), so a
\* date in the past gives 0; a number of seconds is clamped at 0 too.
C18_NeverNegative ==
    (/\ backoff.pc = "done"
     /\ HasHeader(backoff.headers, "retry-after") \/ HasHeader(backoff.headers, "ratelimit-reset"))
    => /\ DelayText(backoff.headers) \in DOMAIN strptime =>
            backoff.result =
                Value(IF strptime[DelayText(backoff.headers)] > backoff.now
                      THEN strptime[DelayText(backoff.headers)] - backoff.now ELSE 0)
       /\ DelayText(backoff.headers) \in DOMAIN float =>
            backoff.result.kind = "value" /\ backoff.result.ms >= 0

\* a date three seconds after the epoch, read five seconds after it, gives 0
C18_Witness ==
    /\ backoff.pc = "done" /\ backoff.now = 5000
    /\ HasHeader(backoff.headers, "retry-after")
    /\ HeaderText(backoff.headers, "retry-after") = "Thu, 01 Jan 2026 00:00:03 GMT"
    /\ backoff.result = Value(0)

\* ---- C11
\* the job's final snapshot has been taken
FinalSnapshot == ctx.pc = "returned" /\ ctx.final
HasResult(name) ==
    "results" \in DOMAIN ctx.snapshot /\ name \in DOMAIN ctx.snapshot["results"]
DocumentPorts == {name \in DOMAIN ctx.ports : ctx.ports[name].cls = "DocumentPort"}
DocumentCollections ==
    {name \in DOMAIN ctx.ports :
        ctx.ports[name].cls = "CollectionPort" /\ ctx.ports[name].type = DOCUMENT_COLLECTION_PORT}

\* C11: a document port that was assigned a value different from its current one appears
\* in the final snapshot as results[portName], with the document assigned and the
\* binding's documentId; a document port never assigned does not appear in results.
C11_ModificationInResults ==
    FinalSnapshot =>
        \A name \in DocumentPorts :
            /\ HasResult(name) <=> <<name, NoIndex>> \in ctx.modified
            /\ <<name, NoIndex>> \in ctx.modified =>
                  /\ ctx.snapshot["results"][name].document
                        = dictget(ctx.ports[name]._binding, "document")
                  /\ ctx.snapshot["results"][name].documentId
                        = dictget(ctx.ports[name]._binding, "documentId")

\* ---- C12
\* C12: for every element i of a document collection that was assigned a new value, the
\* final snapshot's results[portName].ports[i].document is the value assigned to element
\* i, whatever other elements of the collection were assigned.
C12_CollectionElementsInResults ==
    FinalSnapshot =>
        \A name \in DocumentCollections : \A i \in 0..(Len(ctx.ports[name].ports) - 1) :
            <<name, i>> \in ctx.modified =>
                /\ HasResult(name)
                /\ ctx.snapshot["results"][name].ports[i + 1].document
                        = dictget(ctx.ports[name].ports[i + 1]._binding, "document")

\* ---- C20
\* user code has just called get on a port
GetStep == ctx.pc = "user" /\ ctx'.pc = "user" /\ ctx'.got # ctx.got
GotPort == PortAt(ctx'.ports, ctx'.got.name, ctx'.got.index)

\* the payload of a supplied port, by the type of the port
ExpectedPayload(port, thredds) ==
    IF port.cls = "CollectionPort" THEN PyPorts(port.ports)
    ELSE IF port.type \in {STREAM_PORT, STREAM_COLLECTION_PORT}
    THEN dictget(port._binding, "streamId")
    ELSE IF port.type = MULTISTREAM_PORT THEN dictget(port._binding, "streamIds")
    ELSE IF port.type \in {DOCUMENT_PORT, DOCUMENT_COLLECTION_PORT}
    THEN dictget(port._binding, "document")
    ELSE PyDataset(port._binding["dataset"].s)

\* was_supplied is true iff the request has a binding for the port
SuppliedIffBound ==
    ctx.pc # "none" =>
        \A name \in DOMAIN ctx.ports : ctx.ports[name]._was_supplied <=> name \in DOMAIN ctx.bindings

\* C20 as stated: was_supplied iff a binding was present, and get(d) gives the payload of
\* a supplied port and exactly d otherwise, for every port type and every d.
C20_GetGivesDefault ==
    [][GetStep =>
        /\ SuppliedIffBound'
        /\ ctx'.got.result = IF GotPort._was_supplied
                             THEN ExpectedPayload(GotPort, ctx'.thredds)
                             ELSE ctx'.got.default]_vars

\* C20 amended: as above, but a collection port that was not supplied gives d only when d
\* is truthy, and an empty list otherwise.
C20_GetGivesDefaultOrEmptyList ==
    [][GetStep =>
        /\ SuppliedIffBound'
        /\ ctx'.got.result =
              IF GotPort._was_supplied THEN ExpectedPayload(GotPort, ctx'.thredds)
              ELSE IF GotPort.cls = "CollectionPort" /\ ~truthy(ctx'.got.default)
              THEN PyList(<< >>)
              ELSE ctx'.got.default]_vars

\* get(None) on a collection port without binding gave an empty list
C20_Witness ==
    /\ ctx.pc = "user" /\ ctx.got.name = "documents" /\ ctx.got.index = NoIndex
    /\ "documents" \notin DOMAIN ctx.bindings
    /\ ctx.got.default = PyNone /\ ctx.got.result = PyList(<< >>)

\* ---- C19
\* the manifest ports that are required and that the request leaves unbound
RequiredUnbound(ports) ==
    {ManifestPorts[i].name :
        i \in {j \in 1..Len(ManifestPorts) :
                  ManifestPorts[j].required /\ ManifestPorts[j].name \notin ports}}

\* the log of a response is one WARNING of the host naming exactly the ports in names,
\* or empty when names is empty
WarnsExactly(log, names) ==
    IF names = {} THEN log = << >>
    ELSE /\ Len(log) = 1
         /\ log[1].pid = NoProcess /\ log[1].level = "WARNING"
         /\ Range(log[1].message) = names /\ Len(log[1].message) = Cardinality(names)

\* C19: a POST / that starts a job logs one WARNING naming exactly the required manifest
\* ports the request does not bind (none when all are bound), spawns the worker all the
\* same, and the warning is the first log entry returned for the job: the response to
\* the POST holds it and nothing else, and no entry was returned before.
C19_MissingPortsWarned ==
    [][\A ports \in RequestPorts :
          (~JobAccepted(World) /\ PostRoot("test_model", ports)) =>
              /\ SpawnedNow
              /\ resp'.code = 200 /\ resp'.snapshot
              /\ WarnsExactly(resp'.body.log, RequiredUnbound(ports))
              /\ hist'.returned = Range(resp'.body.log)]_vars

\* a job was started without out1 and its first response holds the warning about out1
C19_Witness ==
    /\ InJob /\ procs[job].alive
    /\ resp.code = 200 /\ resp.snapshot
    /\ hist.returned = Range(resp.body.log)
    /\ Len(resp.body.log) = 1 /\ resp.body.log[1].level = "WARNING"
    /\ resp.body.log[1].message = <<"out1">>

\* ---- C21
\* C21: GET / is answered 200 with a snapshot (state, api_version) for every request
\* history and at any time: before any job however long the host idles and however
\* often it is polled, during a job and after it ended.
C21_GetRootAlways200 ==
    [][GetRoot => resp'.code = 200 /\ resp'.snapshot]_vars

\* ---- C22
Rejected(code, modelId) ==
    resp.code = code /\ ~resp.snapshot /\ api_state.model_id = modelId /\ ~InJob

\* C22: POST / without modelId is answered 400 and POST / with a modelId the manifest
\* does not have is answered 500; neither spawns a worker nor sets the process handle,
\* and the valid POST / that follows is accepted.
C22_RejectedRequestSpawnsNothing ==
    [][\A ports \in RequestPorts :
         /\ (~InJob /\ PostRoot("None", ports)) =>
                resp'.code = 400 /\ ~resp'.snapshot /\ ~InJob' /\ procs' = procs
         /\ (~InJob /\ PostRoot("bogus", ports)) =>
                resp'.code = 500 /\ ~resp'.snapshot /\ ~InJob' /\ procs' = procs
         /\ ((Rejected(400, "None") \/ Rejected(500, "bogus"))
                /\ PostRoot("test_model", ports)) =>
                resp'.code = 200 /\ SpawnedNow]_vars

\* the request naming an unknown model was refused and no job was started
C22_Witness == Rejected(500, "bogus") /\ \A p \in Pids : procs[p].pc = "unborn"

\* ---- C23
Signals(ps) == [p \in Pids |-> <<ps[p].sigterm, ps[p].sigkill>>]

\* C23: a POST / answered 409, whatever modelId it carries or lacks, does not reset
\* the supervisor, keeps the process
\* handle, the pipe and the modelId of the first job and signals no worker; the host
\* state changes exactly as a GET / at the same moment would have changed it.
C23_ConflictIsAReadOnlySnapshot ==
    [][(InJob /\ \E modelId \in RequestModelIds : PostRoot(modelId, {"in1", "out1"})) =>
         LET polled == _get_root(World) IN
         /\ resp'.code = 409 /\ resp'.snapshot
         /\ api_state'.process = api_state.process
         /\ api_state'.model_id = api_state.model_id
         /\ DOMAIN pipes' = DOMAIN pipes
         /\ Signals(procs') = Signals(procs)
         /\ api_state' = polled.w.api
         /\ resp'.body = polled.resp.body]_vars

\* a request for another model was answered 409 while the first job was RUNNING
C23_Witness ==
    /\ resp.code = 409 /\ resp.snapshot /\ resp.body.state = RUNNING
    /\ InJob /\ procs[job].alive /\ api_state.model_id = "test_model"
    /\ hist.returned # {}

\* ---- C25
SentLast(p) == IF procs[p].sent = << >> THEN "None" ELSE procs[p].sent[Len(procs[p].sent)]

\* C25: a worker exits with code 0 exactly when its last message was COMPLETE; a run
\* that ended with FAILED because the user code raised exits with a non-zero code.
C25_ExitCodeTellsOutcome ==
    \A p \in Pids : procs[p].pc = "exited" =>
        (procs[p].exitcode = 0 <=> SentLast(p) = COMPLETE)

\* ---- C27
\* the value of `field` after the messages were applied in order to a state holding `held`
LastCarried(msgs, field, held) ==
    LET carrying == {i \in 1..Len(msgs) : msgs[i][field] # "None"} IN
    IF carrying = {} THEN held
    ELSE msgs[CHOOSE i \in carrying : \A k \in carrying : k <= i][field]

\* the entries of worker p in a snapshot's log, in the order of the log
EntriesOf(log, p) == SelectSeq(log, LAMBDA e : e.pid = p)

PollStep ==
    \/ GetRoot
    \/ InJob /\ \E modelId \in RequestModelIds, ports \in RequestPorts : PostRoot(modelId, ports)

\* the detection changed neither state nor exception: they are what the pipe gave
Quiet ==
    /\ api_state'.state.state = Drain(World).api.state.state
    /\ api_state'.state.exception = Drain(World).api.state.exception

\* C29: while the worker is not alive and less than 5 s have passed since the first
\* snapshot that found it so, the detection leaves state and exception alone; the
\* failure timestamp is taken at that first snapshot, is kept by the later snapshots of
\* the window, and is cleared by a snapshot that finds the worker alive.
C29_GracePeriodIsQuiet ==
    [][PollStep =>
         IF subprocess_running(World) THEN api_state'.failed_timestamp = NoTime
         ELSE IF api_state.failed_timestamp = NoTime
              THEN api_state'.failed_timestamp = JustNow /\ Quiet
         ELSE IF api_state.failed_timestamp < _ABNORMAL_TERMINATION_GRACE_PERIOD
              THEN api_state'.failed_timestamp = api_state.failed_timestamp /\ Quiet
         ELSE TRUE]_vars

\* the worker has been dead for 5 s and more, the window opened by the first snapshot
\* that saw it is still running and the job is still shown RUNNING
C29_Witness ==
    /\ DeadJob /\ procs[job].diedAt >= _ABNORMAL_TERMINATION_GRACE_PERIOD
    /\ api_state.failed_timestamp \in 1..(_ABNORMAL_TERMINATION_GRACE_PERIOD - 1)
    /\ resp.snapshot /\ resp.body.state = RUNNING /\ model_state(World) = RUNNING
    /\ resp.body.exception = NoException

\* ---- C30
\* the step in which the detection records the failure `msg`
Classified(msg) ==
    api_state.state.exception.msg # msg /\ api_state'.state.exception.msg = msg

\* C30: the detection a snapshot runs classifies a worker 'failed to start' rather
\* than 'terminated abnormally' exactly when it is not alive and the job is still
\* PENDING, and only once the 30 s of the startup window, counted from
\* started_timestamp, have passed.
C30_FailedToStartAfterStartupWindow ==
    [][PollStep =>
         /\ Classified("failed to start") =>
              /\ DeadJob /\ Drain(World).api.state.state = PENDING
              /\ api_state.started_timestamp # NoTime
              /\ api_state.started_timestamp >= _SUBPROCESS_STARTUP_TIME_LIMIT
         /\ Classified("terminated abnormally") =>
              DeadJob /\ Drain(World).api.state.state # PENDING]_vars

\* ---- C26
ModelDirectory == <<"/", "srv", "model">>
ManifestPath == Append(ModelDirectory, "manifest.json")

\* the path given to the loader, made absolute
GivenPath == IF Head(load.path) = "/" THEN load.path ELSE load.cwd \o load.path

\* the loader returned the model's manifest and the manifest's entrypoint joined to the
\* manifest's directory
LoadedModel ==
    /\ load.result.raised = "None"
    /\ load.result.manifest = load.fs.manifests[ManifestPath]
    /\ load.result.entrypoint = ModelDirectory \o load.fs.manifests[ManifestPath].entrypoint

Loaded == load.pc = "done" /\ ManifestPath \in DOMAIN load.fs.manifests

MissingPathRaises ==
    (load.pc = "done" /\ GivenPath \notin load.fs.files \cup load.fs.dirs)
        => load.result.raised = "RuntimeError"

C24_HandlersSerialized ==
    /\ Cardinality(posts.alive) <= 1
    /\ posts.alive # {} => posts.alive = {posts.process}
    /\ Cardinality({t \in Threads : posts.code[t] = 200}) <= 1

\* ---- C28
\* C28: a log entry appended while _get_state is between copying the state and the end
\* of the purge is not deleted by the purge: every entry emitted is still in the log,
\* or in the copy about to be returned, or was returned by a snapshot.
C28_RacedEntrySurvives ==
    \A entry \in 1..snap.emitted :
        entry \in Range(snap.log) \cup Range(snap.ret_val) \cup Range(snap.returned)

\* ---- C31
\* the host's log entries of the given level in a response
HostEntries(log, level) == {i \in 1..Len(log) : log[i].pid = NoProcess /\ log[i].level = level}

\* C31: terminate(timeout) sends SIGTERM and nothing else before the wait; after the
\* wait it sends SIGKILL exactly when the worker is still alive, updates the state and
\* then tries to stop the listener; a worker that exited during the wait is not sent
\* SIGKILL, no other step sends SIGKILL, and a missing shutdown hook only adds a warning.
C31_TerminateOrder ==
    [][/\ (InJob /\ PostTerminate) =>
            /\ procs'[job].sigterm = procs[job].alive
            /\ procs'[job].sigkill = procs[job].sigkill
            /\ api_state' = api_state /\ listening' = listening
       /\ \A hook \in BOOLEAN : PostTerminateReturn(hook) =>
            /\ procs'[job].sigkill = procs[job].alive
            /\ listening' = ~hook
            /\ resp'.code = 200 /\ resp'.snapshot
            /\ HostEntries(resp'.body.log, "WARNING") # {}
                  <=> (procs[job].alive \/ ~hook)
            /\ resp'.body.state \in {TERMINATED, COMPLETE, FAILED}
       /\ \A p \in Pids : (procs'[p].sigkill /\ ~procs[p].sigkill) =>
            hostPc = "join" /\ hostPc' = "idle" /\ procs[p].alive]_vars

\* the worker exited on SIGTERM during the wait: no SIGKILL, TERMINATED, and the
\* server without shutdown hook keeps listening after a warning
C31_Witness ==
    /\ InJob /\ hostPc = "idle" /\ listening
    /\ procs[job].pc = "exited" /\ procs[job].exitcode = 0 /\ ~procs[job].sigkill
    /\ resp.snapshot /\ resp.body.state = TERMINATED
    /\ HostEntries(resp.body.log, "WARNING") # {}
    /\ procs[job].sent = << >>

\* ---- C37
\* C37: when a request handler raises an unexpected exception, the 500 handler
\* terminates the worker, sets FAILED and answers 500 with the snapshot, which shows
\* FAILED whatever the state was before.
C37_ErrorHandlerAnswersSnapshot ==
    [][(GetRoot /\ _get_state(World).raised) =>
         /\ api_state'.state.state = FAILED
         /\ resp'.code = 500 /\ resp'.snapshot /\ resp'.body.state = FAILED]_vars


\* ---- C38
IsPrefix(s, t) == Len(s) <= Len(t) /\ SubSeq(t, 1, Len(s)) = s
UnreadKeys == Keys(Range(PipeLog))

\* C38: once the host state is COMPLETE, FAILED or TERMINATED, and while terminate()
\* is waiting for the worker, no step takes a message out of the job's pipe, and no
\* entry unread in the pipe reaches the state's log or a response.
C38_NoReadAfterTerminal ==
    [][(InJob /\ (model_state(World) \in {COMPLETE, FAILED, TERMINATED} \/ hostPc = "join")) =>
         /\ IsPrefix(pipes[job], pipes'[job])
         /\ Keys(Range(api_state'.state.log)) \cap UnreadKeys = {}
         /\ Keys(hist'.returned) \cap UnreadKeys = {}]_vars

\* the job was terminated with messages unread, a later GET / made it FAILED, and the
\* messages are still in the pipe
C38_Witness ==
    /\ hist.firstTerminal = TERMINATED
    /\ resp.snapshot /\ resp.body.state = FAILED
    /\ UnreadNonTerminal /\ PipeLog # << >>


\* ---- C39
\* C39: a snapshot taken while the job's worker is alive leaves state and exception as
\* the pipe gave them, whatever the clock says, takes no startup timestamp and leaves
\* the failure timestamp cleared.
C39_LiveWorkerNeverFailed ==
    [][(PollStep /\ InJob /\ procs[job].alive) =>
         /\ Quiet
         /\ api_state'.process = job
         /\ api_state'.failed_timestamp = NoTime
         /\ api_state'.started_timestamp = NoTime]_vars

\* a job still PENDING was polled by a second POST / with its worker alive and silent
\* (the clock may have run for any time since the spawn: Tick is enabled between any
\* two requests)
C39_Witness ==
    /\ InJob /\ procs[job].alive /\ procs[job].sent = << >>
    /\ hostPc = "idle" /\ resp.code = 409 /\ resp.snapshot /\ resp.body.state = PENDING
    /\ api_state.failed_timestamp = NoTime /\ api_state.started_timestamp = NoTime


\* ---- C32
RECURSIVE LastSent(_, _)
\* the value the sender was last given for field k, _SENTINEL when it never was
LastSent(sent, k) ==
    IF sent = << >> THEN _SENTINEL
    ELSE IF k \in DOMAIN sent[Len(sent)] THEN sent[Len(sent)][k]
    ELSE LastSent(SubSeq(sent, 1, Len(sent) - 1), k)

\* what a call with these arguments has to send: the fields passed whose value is
\* not the one last sent
Changed(message, progress) ==
    LET given == [state |-> RUNNING, message |-> message, progress |-> progress]
        keys == {k \in DOMAIN given :
                    given[k] # _SENTINEL /\ given[k] # LastSent(updater.sender, k)} IN
    [k \in keys |-> given[k]]

\* C32: an update call sends a message exactly when a field it was given differs from
\* the value last sent for that field, the message holds exactly those fields, and
\* state RUNNING is sent by the first update of the job only.
C32_SendsExactlyChanges ==
    [][(updater.pc = "job" /\ updater'.calls = updater.calls + 1) =>
         LET changes == Changed(updater'.message, updater'.progress) IN
         /\ updater'.sender = IF DOMAIN changes = {} THEN updater.sender
                              ELSE Append(updater.sender, changes)
         /\ \A i \in 1..Len(updater'.sender) :
               ("state" \in DOMAIN updater'.sender[i]) <=> (i = 1)]_vars

\* three calls were made: the first sent the state, one sent the progress alone, and
\* one, which changed nothing, sent nothing
C32_Witness ==
    /\ updater.pc = "job" /\ updater.calls = 3 /\ Len(updater.sender) = 2
    /\ updater.message = _SENTINEL /\ updater.progress = "0.5"
    /\ updater.sender[1] = [state |-> RUNNING]
    /\ DOMAIN updater.sender[2] = {"progress"}


\* ---- C33
\* the error is one the wrapper may retry: a recognised HTTP error whose method and
\* status are in the wrapper's sets, or the set is ANY
MayRetry(e) ==
    /\ IsHTTPError(e)
    /\ call.self._retryable_methods = ANY \/ e.method \in call.self._retryable_methods
    /\ call.self._retryable_statuses = ANY \/ e.status \in call.self._retryable_statuses

\* C33: the function is invoked again only after an error that is a recognised HTTP
\* error with a retryable method and a retryable status; after any other error the
\* call ends with that error, without a sleep and without another invocation.
C33_RetriedOnlyIfRetryable ==
    (InCall /\ call.invocations >= 1 /\ call.last.seq = call.invocations) =>
        /\ call.pc = "calling" => MayRetry(call.last)
        /\ ~MayRetry(call.last) =>
              /\ LastErrorPropagated
              /\ Len(call.sleeps) = call.invocations - 1

\* with the whole budget left, a 404 from a GET ended the call at its first invocation
C33_Witness ==
    /\ call.pc = "raised" /\ call.self._retries = MaxRetries /\ call.invocations = 1
    /\ call.last.lib = "requests" /\ call.last.method = "GET" /\ call.last.status = "404"
    /\ call.self._retryable_statuses = RETRYABLE_STATUSES
    /\ call.sleeps = << >> /\ LastErrorPropagated


\* ---- C34
\* the document ports of the context and the elements of its document collections
DocumentTargets ==
    {<<name, NoIndex>> : name \in DocumentPorts}
        \cup {<<name, i>> : name \in DocumentCollections, i \in {0, 1}}

\* C34: assigning to a document port the value it holds leaves the context as it was
\* (binding, modifications noted, updates sent), and assigning a value a second time
\* leaves what the first assignment left.
C34_EqualAssignmentIsNoOp ==
    ctx.pc = "user" =>
        \A t \in DocumentTargets, value \in {PyStr("foo"), PyStr("baz"), PyStr("bar")} :
            HasPort(ctx.ports, t[1], t[2]) =>
                LET once == set_value(ctx, t[1], t[2], value) IN
                /\ (value = dictget(PortAt(ctx.ports, t[1], t[2])._binding, "document"))
                      => once = ctx
                /\ set_value(once, t[1], t[2], value) = once
                /\ dictget(PortAt(once.ports, t[1], t[2])._binding, "document") = value

\* the document port was assigned "baz" and holds it, and the element of the collection
\* bound to "foo" was never assigned: assigning "baz" or "foo" again is the equal case
C34_Witness ==
    /\ ctx.pc = "user"
    /\ ctx.modified = {<<"document", NoIndex>>}
    /\ dictget(ctx.ports["document"]._binding, "document") = PyStr("baz")
    /\ ctx.ports["documents"]._was_supplied
    /\ dictget(ctx.ports["documents"].ports[1]._binding, "document") = PyStr("foo")


\* ---- C35
\* a call of upload_data has just ended
UploadStep == grid.pc = "user" /\ grid'.op = "upload" /\ grid' # grid

\* what getattr(context.thredds_client, 'catalog_url', None) gives in this context
ReadCatalog == IF grid._thredds_config = "None" THEN "None" ELSE grid.client_catalog

LookupStep == grid.pc = "user" /\ grid'.lookups = grid.lookups + 1

\* C36: no step replaces or removes an entry of the client cache; a lookup returns the
\* client the cache holds for the URL's key, which is the one it held before when it
\* held one; and in a context with a read configuration the key of the read client
\* holds the read client after every lookup.
C36_FirstWriterWins ==
    [][/\ grid.pc = "user" =>
            \A k \in DOMAIN grid.clients :
                k \in DOMAIN grid'.clients /\ grid'.clients[k] = grid.clients[k]
       /\ LookupStep =>
            /\ context_url(grid'.url) \in DOMAIN grid'.clients
            /\ grid'.ret = grid'.clients[context_url(grid'.url)]
            /\ context_url(grid'.url) \in DOMAIN grid.clients
                  => grid'.ret = grid.clients[context_url(grid'.url)]
            /\ grid._thredds_config # "None" =>
                  /\ context_url(grid._thredds_config) \in DOMAIN grid'.clients
                  /\ grid'.clients[context_url(grid._thredds_config)].role = "read"]_vars

\* two catalogs of the read client's server were looked up: both lookups made a
\* client of their own, and the second, like the first, was given the read client
C36_Witness ==
    /\ grid.pc = "user" /\ grid.op = "lookup" /\ grid.lookups = 2
    /\ grid.url = "http://tds/thredds/catalog/b/catalog.xml"
    /\ grid.ret.role = "read" /\ grid.ret = grid._thredds_client
    /\ DOMAIN grid.clients = {"http://tds/thredds"}
    /\ grid.made >= 3


\* ---- C40
\* the lines of the script written to one stream, in the order written
LinesOf(stream) == SelectSeq([i \in 1..Len(child.script) |-> i], LAMBDA i : child.script[i] = stream)
\* the lines forwarded with one level, in the order forwarded
Forwarded(level) ==
    LET entries == SelectSeq(child.log, LAMBDA e : e.level = level) IN
    [i \in 1..Len(entries) |-> entries[i].line]

\* execute has returned the child's exit code, every line forwarded with its level
ExecuteDone ==
    /\ child.pc = "returned" /\ child.returned = child.returncode
    /\ Forwarded("STDOUT") = LinesOf("stdout")
    /\ Forwarded("STDERR") = LinesOf("stderr")

\* C40: execute eventually returns the exit code of every child that eventually exits,
\* with every stdout line forwarded as STDOUT and every stderr line as STDERR, also when
\* the child writes more to stderr than the pipe holds before it closes stdout.
C40_ExecuteReturns == (child.pc # "none") ~> ExecuteDone

\* what does hold: when execute returns, it returns the child's exit code and has
\* forwarded every line
ReturnsRightWhenItReturns == child.pc = "returned" => ExecuteDone

====
